---- MODULE Spec2Model ----
(***************************************************************************)
(* Model of the feature-engineering and training pipeline:                 *)
(*   src/src/processing/features.py  (indicators, process_data)            *)
(*   src/src/processing/split.py     (apply_rolling_window, split_data)    *)
(*                                                                         *)
(* Tables are sequences of rows (records).  Column values are triples      *)
(* <<kind, n, d>>: a finite rational n/d ("num"), an infinity ("inf", with *)
(* sign n), not-a-number ("nan"), or a finite value whose magnitude the    *)
(* model does not track ("def": the EMA-based and square-root-based        *)
(* columns, whose values are irrational or have unbounded denominators).   *)
(* The split index is computed in IEEE-754 binary64, bit for bit.          *)
(***************************************************************************)
EXTENDS Integers, Sequences, FiniteSets, TLC

VARIABLES
    pc,            \* position of the run
    files,         \* the CSV files on disk: path -> rows, in file order
    runs,          \* number of process_data calls made
    first_df,      \* the table the first process_data call returned
    apply_window,  \* the apply_window argument
    window_days,   \* the window_days argument of apply_rolling_window
    test_size,     \* the test_size argument, the decimal literal p/q as <<p, q>>
    df,            \* the table handed to split_data / apply_rolling_window
    train_df,      \* first component of split_data's result
    test_df,       \* second component of split_data's result
    windowed,      \* the table apply_rolling_window returned
    data,          \* the table handed to an indicator function
    window,        \* the window argument of an indicator function
    series,        \* the Series an indicator function returned
    windowed_split, \* the table split.apply_rolling_window returned
    columns,       \* df.columns of the table handed to the Trainer
    features,      \* the list _get_available_features returned
    printed,       \* the lines _get_available_features printed
    run_id,        \* number of the training run (the ModelTrainer at work)
    metrics,       \* self.metrics of that ModelTrainer: the keys recorded
    artifacts,     \* the files under models/ and reports/: name -> run that wrote it
    called,        \* the ModelTrainer methods called so far
    error,         \* the exception the last call raised, or "none"
    fitted,        \* the columns the persisted models were fitted on
    inference,     \* the columns of the feature vector handed to a model
    symbols,       \* the symbols main_pipeline works through
    position,      \* index in symbols of the symbol of the current iteration
    successful,    \* main_pipeline's list successful
    failed,        \* main_pipeline's list failed: <<symbol, error>>
    attempted,     \* the symbols whose iteration has started
    notified,      \* the messages handed to notify_discord
    run_symbol,    \* the symbol of each concurrent pipeline run
    run_pos,       \* the number of files each concurrent run has written
    written_by,    \* the writes so far, as pairs <<path, run>>
    owner,         \* path -> the run that wrote the file last
    max_retries,   \* retry_api_call: the decorator's max_retries
    delay,         \* retry_api_call: the decorator's delay
    backoff,       \* retry_api_call: the decorator's backoff
    attempt,       \* wrapper: the loop variable, as the number of attempts made
    current_delay, \* wrapper: current_delay
    last_exception, \* wrapper: last_exception, <<exception, call>> or <<>>
    calls,         \* the outcomes of the calls of func so far
    slept,         \* the arguments of time.sleep so far
    returned,      \* what the wrapper came to: <<"result", call>>, <<"raised", e>> or <<>>
    on_disk,       \* symbol -> the model files under models/{symbol} that load
    selected,      \* the symbol selected in the dashboard
    models,        \* what load_models_local returned: <<keys>>, or <<>> for None
    prediction,    \* the prediction step: "predicted", "none", or the exception raised
    pred_price,    \* symbol -> the price the regression model predicts, in mills
    last_sent_alert, \* st.session_state.last_sent_alert: a prediction id, or <<>> for None
    sent_alerts,   \* the prediction ids of the alerts sent successfully, in order
    reruns,        \* the number of script runs of the session so far
    now,           \* time.time(), in seconds
    notification_lock, \* the monitor thread holding notification_lock, or 0
    sent_notifications, \* symbol -> <<last_prediction_id, last_check_time>>, <<>> if absent
    thread_pc,     \* monitor thread -> its position in check_ticker
    thread_symbol, \* monitor thread -> the symbol it is checking
    alerts,        \* the alerts that went out, in order: <<symbol, time>>
    session_state, \* session -> st.session_state: the monitor_started key, the runs
    monitor_threads \* the number of monitor threads started in the process

\* the variables of inference
infer_vars == <<fitted, inference>>

\* the variables of main_pipeline
batch_vars == <<symbols, position, successful, failed, attempted, notified>>

\* the variables of concurrent pipeline runs
conc_vars == <<run_symbol, run_pos, written_by, owner>>

\* the variables of a function wrapped by retry_api_call
retry_vars == <<max_retries, delay, backoff, attempt, current_delay,
                last_exception, calls, slept, returned>>

\* the variables of the dashboard's model loading and prediction
load_vars == <<on_disk, selected, models, prediction>>

\* the variables of the dashboard's alerts within one session
alert_vars == <<pred_price, last_sent_alert, sent_alerts, reruns>>

\* the variables of the monitor threads
monitor_vars == <<now, notification_lock, sent_notifications, thread_pc,
                  thread_symbol, alerts>>

\* the variables of the sessions of the dashboard process
session_vars == <<session_state, monitor_threads>>

\* the variables of the dashboard and of the monitor
dash_vars == <<retry_vars, load_vars, alert_vars, monitor_vars, session_vars>>

\* the variables of the later stages of the pipeline
stage_vars == <<windowed_split, columns, features, printed,
                run_id, metrics, artifacts, called, error>>

vars == <<pc, files, runs, first_df, apply_window, window_days, test_size, df,
          train_df, test_df, windowed, data, window, series, stage_vars,
          infer_vars, batch_vars, conc_vars, dash_vars>>

(***************************************************************************)
(* Bounds of the model.                                                    *)
(***************************************************************************)
MaxRows == 12      \* short tables have 0..MaxRows rows
MaxOver == 2       \* long tables exceed the rolling window by up to MaxOver rows
MaxSegs == 2       \* a price series is made of up to MaxSegs straight segments
MaxWin == 3        \* indicator windows 1..MaxWin besides the ones the code uses
BasePrice == 1000  \* close before the first row of a generated price series
MaxTrainRows == 24 \* the tables handed to the Trainer have 0..MaxTrainRows rows
MaxSymbols == 3    \* main_pipeline is given 1..MaxSymbols symbols
MaxTrainRuns == 2  \* train_and_evaluate runs up to MaxTrainRuns times for the symbol
MaxRetries == 3    \* retry_api_call is given max_retries in 1..MaxRetries
MaxReruns == 3     \* a dashboard session runs the script up to MaxReruns times
MaxIntervals == 2  \* the clock runs up to MaxIntervals check intervals
MaxSessions == 3   \* up to MaxSessions sessions are opened in the dashboard process

(***************************************************************************)
(* Program constants.                                                      *)
(***************************************************************************)
CHECK_INTERVAL == 180
ROLLING_WINDOW_DAYS == 700        \* features.ROLLING_WINDOW_DAYS
split_ROLLING_WINDOW_DAYS == 700  \* split.ROLLING_WINDOW_DAYS
SMA_SHORT == 20    \* window of sma_20, and of volatility_20
SMA_LONG == 50     \* window of sma_50, and of price_zscore
RSI_WINDOW == 14   \* default window of calculate_rsi
MACD_SLOW == 26
MACD_FAST == 12
MACD_SIGNAL == 9
CLUSTER_VOL_WINDOW == 20  \* rolling window of train_clustering's volatility
N_CLUSTERS == 3           \* KMeans(n_clusters=3)
N_COMPONENTS == 2         \* PCA(n_components=2)
MantBits == 53     \* significand width of a Python float (binary64)
LimbBits == 15     \* limb width of the model's multi-precision naturals
FracLimbCount == 5 \* limbs of a literal's binary expansion kept before rounding

Min(a, b) == IF a < b THEN a ELSE b
Max(a, b) == IF a > b THEN a ELSE b

(***************************************************************************)
(* Binary64 arithmetic.  A natural of any size is a sequence of limbs of   *)
(* LimbBits bits, least significant limb first; a float is                 *)
(* [m |-> limbs, e |-> k], the value m * 2^k.                              *)
(***************************************************************************)
LimbBase == 2 ^ LimbBits

BigNorm(l) ==
    LET nz == {i \in 1..Len(l) : l[i] # 0}
    IN  IF nz = {} THEN <<>>
        ELSE SubSeq(l, 1, CHOOSE i \in nz : \A j \in nz : j <= i)

LimbLen(x) == Cardinality({j \in 0..(LimbBits - 1) : 2 ^ j <= x})

\* number of significant bits of a normalised natural
BigLen(l) ==
    IF l = <<>> THEN 0 ELSE LimbBits * (Len(l) - 1) + LimbLen(l[Len(l)])

BigLimb(l, i) == IF i >= 1 /\ i <= Len(l) THEN l[i] ELSE 0

\* bit i of l, bit 1 the least significant
BigBit(l, i) ==
    (BigLimb(l, ((i - 1) \div LimbBits) + 1) \div (2 ^ ((i - 1) % LimbBits))) % 2

\* floor(l / 2^s)
BigShr(l, s) ==
    LET a == s \div LimbBits
        b == s % LimbBits
    IN  BigNorm([j \in 1..Max(Len(l) - a, 0) |->
                    (BigLimb(l, j + a) \div (2 ^ b))
                    + (BigLimb(l, j + a + 1) % (2 ^ b)) * (2 ^ (LimbBits - b))])

RECURSIVE BigInc(_)
BigInc(l) ==
    IF l = <<>> THEN <<1>>
    ELSE IF l[1] + 1 < LimbBase THEN <<l[1] + 1>> \o Tail(l)
    ELSE <<0>> \o BigInc(Tail(l))

\* l * n + carry for a natural n < LimbBase
RECURSIVE BigMulSmall(_, _, _)
BigMulSmall(l, n, carry) ==
    IF l = <<>> THEN (IF carry = 0 THEN <<>> ELSE <<carry>>)
    ELSE LET t == l[1] * n + carry
         IN  <<t % LimbBase>> \o BigMulSmall(Tail(l), n, t \div LimbBase)

\* a - b - borrow for a >= b + borrow
RECURSIVE BigSub(_, _, _)
BigSub(a, b, borrow) ==
    IF a = <<>> THEN <<>>
    ELSE LET t == a[1] + LimbBase - BigLimb(b, 1) - borrow
         IN  <<t % LimbBase>>
             \o BigSub(Tail(a), IF b = <<>> THEN <<>> ELSE Tail(b),
                       IF t < LimbBase THEN 1 ELSE 0)

\* 2^k
BigPow2(k) ==
    [i \in 1..((k \div LimbBits) + 1) |->
        IF i = (k \div LimbBits) + 1 THEN 2 ^ (k % LimbBits) ELSE 0]

\* a natural below LimbBase^2 as an integer
BigToNat(l) == BigLimb(l, 1) + LimbBase * BigLimb(l, 2)

\* the exact value (l + some fraction, non-zero iff lost) * 2^e rounded to
\* MantBits significant bits, ties to even
RoundFloat(l0, lost, e) ==
    LET l == BigNorm(l0)
        L == BigLen(l)
    IN  IF L <= MantBits THEN [m |-> l, e |-> e]
        ELSE LET s      == L - MantBits
                 kept   == BigShr(l, s)
                 guard  == BigBit(l, s)
                 sticky == lost \/ \E i \in 1..(s - 1) : BigBit(l, i) = 1
                 up     == guard = 1 /\ (sticky \/ BigBit(kept, 1) = 1)
             IN  [m |-> IF up THEN BigInc(kept) ELSE kept, e |-> e + s]

\* the first k limbs after the point of r/q, least significant limb first
RECURSIVE FracLimbs(_, _, _)
FracLimbs(r, q, k) ==
    IF k = 0 THEN <<>>
    ELSE FracLimbs((LimbBase * r) % q, q, k - 1) \o <<(LimbBase * r) \div q>>

RECURSIVE FracRem(_, _, _)
FracRem(r, q, k) == IF k = 0 THEN r ELSE FracRem((LimbBase * r) % q, q, k - 1)

\* the float a decimal literal p/q (0 < p < q) denotes: p/q correctly rounded
FloatOfLiteral(p, q) ==
    RoundFloat(FracLimbs(p, q, FracLimbCount), FracRem(p, q, FracLimbCount) # 0,
               0 - LimbBits * FracLimbCount)

\* 1 - f for a float 0 < f < 1
FloatOneMinus(f) == RoundFloat(BigSub(BigPow2(0 - f.e), f.m, 0), FALSE, f.e)

\* n * f for a natural n (exactly representable) and a float f
FloatTimesNat(n, f) == RoundFloat(BigMulSmall(f.m, n, 0), FALSE, f.e)

\* int(f) for a float f >= 0: truncation
FloatToInt(f) == BigToNat(BigShr(f.m, 0 - f.e))

(***************************************************************************)
(* Column values (pandas float64 cells).                                   *)
(*   <<"num", n, d>>  the rational n/d, d > 0                              *)
(*   <<"inf", s, 1>>  the infinity of sign s                               *)
(*   <<"nan", 0, 1>>  not-a-number                                         *)
(*   <<"log", n, d>>  ln(n/d) for n, d > 0                                 *)
(*   <<"def", 0, 1>>  a finite number whose magnitude is not tracked       *)
(* Arithmetic is exact on "num" and follows IEEE-754 on the special        *)
(* values: x/0 is an infinity for x # 0 and nan for x = 0, nan propagates. *)
(***************************************************************************)
NaN == <<"nan", 0, 1>>
Num(n, d) == IF d < 0 THEN <<"num", 0 - n, 0 - d>> ELSE <<"num", n, d>>
Inf(s) == <<"inf", s, 1>>
Def == <<"def", 0, 1>>

IsNaN(v) == v[1] = "nan"
Sgn(n) == IF n > 0 THEN 1 ELSE IF n < 0 THEN 0 - 1 ELSE 0

\* equality of two cells as numbers (nan equals nothing)
ValEq(u, v) == u[1] = v[1] /\ u[1] # "nan" /\ u[2] * v[3] = v[2] * u[3]

Neg(v) == IF v[1] \in {"num", "inf"} THEN <<v[1], 0 - v[2], v[3]>> ELSE v

Add(a, b) ==
    CASE IsNaN(a) \/ IsNaN(b)           -> NaN
      [] a[1] = "inf" /\ b[1] = "inf"   -> IF a[2] = b[2] THEN a ELSE NaN
      [] a[1] = "inf"                   -> a
      [] b[1] = "inf"                   -> b
      [] a[1] = "num" /\ b[1] = "num"   -> Num(a[2] * b[3] + b[2] * a[3], a[3] * b[3])
      [] OTHER                          -> Def

Sub(a, b) == Add(a, Neg(b))

\* the zero denominators the indicators meet are rolling means and standard
\* deviations of value +0.0 or -0.0; the sign of the infinity differs with
\* it, the results built from it below (100 - 100/(1 + rs)) do not
Div(a, b) ==
    CASE IsNaN(a) \/ IsNaN(b)           -> NaN
      [] a[1] = "inf" /\ b[1] = "inf"   -> NaN
      [] a[1] = "inf"                   -> a
      [] b[1] = "inf"                   -> Num(0, 1)
      [] b[1] = "num" /\ b[2] = 0       ->
            IF a[1] = "num" /\ a[2] = 0 THEN NaN
            ELSE Inf(IF a[1] = "num" THEN Sgn(a[2]) ELSE 1)
      [] a[1] = "num" /\ b[1] = "num"   -> Num(a[2] * b[3], a[3] * b[2])
      [] OTHER                          -> Def

\* np.log
Log(a) ==
    CASE IsNaN(a)                       -> NaN
      [] a[1] = "inf"                   -> IF a[2] > 0 THEN a ELSE NaN
      [] a[1] = "num" /\ a[2] > 0       -> <<"log", a[2], a[3]>>
      [] a[1] = "num" /\ a[2] = 0       -> Inf(0 - 1)
      [] OTHER                          -> NaN

(***************************************************************************)
(* pandas Series operations.  A Series is a sequence of cells.             *)
(***************************************************************************)
Cell(v) == IF IsNaN(v) THEN 0 ELSE v[2]
Seen(v) == IF IsNaN(v) THEN 0 ELSE 1

\* running totals of a sequence of integers
RECURSIVE Cumsum(_)
Cumsum(xs) ==
    IF Len(xs) <= 1 THEN xs
    ELSE LET h == Len(xs) \div 2
             L == Cumsum(SubSeq(xs, 1, h))
             R == Cumsum(SubSeq(xs, h + 1, Len(xs)))
         IN  L \o [j \in 1..Len(R) |-> R[j] + L[h]]

At0(cs, i) == IF i < 1 THEN 0 ELSE cs[i]

\* Series.shift(k): the cell k rows earlier (later for k < 0)
Shift(xs, k) ==
    LET n == Len(xs)
    IN  [i \in 1..n |-> IF i - k >= 1 /\ i - k <= n THEN xs[i - k] ELSE NaN]

\* Series.diff()
Diff(xs) ==
    LET n  == Len(xs)
        sh == Shift(xs, 1)
    IN  [i \in 1..n |-> Sub(xs[i], sh[i])]

\* Series.rolling(window=w).mean() of integer-valued cells: the window's
\* running sum and observation count (a value enters, the value w rows back
\* leaves); nan until w observations are in the window (min_periods = w)
RollingMean(xs, w) ==
    LET sum == Cumsum([i \in 1..Len(xs) |-> Cell(xs[i])])
        obs == Cumsum([i \in 1..Len(xs) |-> Seen(xs[i])])
    IN  [i \in 1..Len(xs) |->
            LET nobs == obs[i] - At0(obs, i - w)
            IN  IF nobs < w THEN NaN
                ELSE Num(sum[i] - At0(sum, i - w), nobs)]

\* the same with min_periods = 1
RollingMeanMin1(xs, w) ==
    LET sum == Cumsum([i \in 1..Len(xs) |-> Cell(xs[i])])
        obs == Cumsum([i \in 1..Len(xs) |-> Seen(xs[i])])
    IN  [i \in 1..Len(xs) |->
            LET nobs == obs[i] - At0(obs, i - w)
            IN  IF nobs < 1 THEN NaN
                ELSE Num(sum[i] - At0(sum, i - w), nobs)]

\* Series.rolling(window=w).std(): nan until w observations (and at least
\* two) are in the window; zero when the window is one run of equal values
\* (the count of consecutive equal values reaches the window), positive
\* otherwise
RollingStd(xs, w) ==
    LET n   == Len(xs)
        obs == Cumsum([i \in 1..n |-> Seen(xs[i])])
        chg == Cumsum([i \in 1..n |->
                          IF i > 1 /\ ValEq(xs[i], xs[i - 1]) THEN 0 ELSE 1])
    IN  [i \in 1..n |->
            LET nobs == obs[i] - At0(obs, i - w)
            IN  IF nobs < w \/ nobs < 2 THEN NaN
                ELSE IF chg[i] - chg[i - w + 1] = 0 THEN Num(0, 1)
                ELSE Def]

\* Series.ewm(span=s, adjust=False).mean(): defined from the first row on
\* for defined input (the recursion starts at the first observation)
EwmMean(xs, s) ==
    [i \in 1..Len(xs) |->
        IF \E j \in 1..i : ~IsNaN(xs[j]) THEN Def ELSE NaN]

\* data['close'] as a Series
Close(d) == [i \in 1..Len(d) |-> Num(d[i].close, 1)] \o <<>>

(***************************************************************************)
(* features.py: indicators                                                 *)
(***************************************************************************)
calculate_sma_min_periods_1(d, w) == RollingMeanMin1(Close(d), w)

calculate_sma(d, w) == RollingMean(Close(d), w)

\* delta.where(delta > 0, 0) and -delta.where(delta < 0, 0)
Gain(delta) ==
    [i \in 1..Len(delta) |->
        IF ~IsNaN(delta[i]) /\ delta[i][2] > 0 THEN delta[i] ELSE Num(0, 1)]
Loss(delta) ==
    [i \in 1..Len(delta) |->
        IF ~IsNaN(delta[i]) /\ delta[i][2] < 0 THEN Neg(delta[i]) ELSE Num(0, 1)]

RsiOf(gain, loss) ==
    [i \in 1..Len(gain) |->
        LET rs == Div(gain[i], loss[i])
        IN  Sub(Num(100, 1), Div(Num(100, 1), Add(Num(1, 1), rs)))]

\* a zero average loss handled by a guarded division that yields nan
calculate_rsi_guarded(d, w) ==
    LET delta == Diff(Close(d))
        gain  == RollingMean(Gain(delta), w)
        loss  == RollingMean(Loss(delta), w)
    IN  [i \in 1..Len(d) |->
            IF IsNaN(loss[i]) \/ loss[i][2] = 0 THEN NaN
            ELSE RsiOf(gain, loss)[i]]

calculate_rsi(d, w) ==
    LET delta == Diff(Close(d))
        gain  == RollingMean(Gain(delta), w)
        loss  == RollingMean(Loss(delta), w)
    IN  RsiOf(gain, loss)

\* <<macd, signal_line>>
calculate_macd(d, slow, fast, signal) ==
    LET exp1 == EwmMean(Close(d), fast)
        exp2 == EwmMean(Close(d), slow)
        macd == [i \in 1..Len(d) |-> Sub(exp1[i], exp2[i])]
    IN  <<macd, EwmMean(macd, signal)>>

(***************************************************************************)
(* features.py: apply_rolling_window                                       *)
(***************************************************************************)
\* DataFrame.tail(k) and DataFrame.head(k) for k >= 0
Tail_(d, k) == SubSeq(d, Len(d) - Min(k, Len(d)) + 1, Len(d))
Head_(d, k) == SubSeq(d, 1, Min(k, Len(d)))

\* no truncation at all
features_apply_rolling_window_none(d, wd) == d

\* the first window_days rows kept instead of the last
features_apply_rolling_window_head(d, wd) ==
    IF Len(d) <= wd THEN d ELSE Head_(d, wd)

features_apply_rolling_window(d, wd) ==
    IF Len(d) <= wd THEN d ELSE Tail_(d, wd)

(***************************************************************************)
(* features.py: process_data.  A raw row is [timestamp, close]; the other  *)
(* OHLCV columns are taken to be defined and are not carried.  Timestamps  *)
(* of a raw file are distinct, so the order sort_values gives is unique.   *)
(***************************************************************************)
\* df.sort_values('timestamp')
SortByTimestamp(rows) ==
    LET n    == Len(rows)
        ts   == [i \in 1..n |-> rows[i].timestamp] \o <<>>
        rank == [i \in 1..n |->
                    Cardinality({j \in 1..n :
                        ts[j] < ts[i] \/ (ts[j] = ts[i] /\ j < i)}) + 1]
                \o <<>>
    IN  [k \in 1..n |-> rows[CHOOSE i \in 1..n : rank[i] = k]] \o <<>>

\* the columns add_stationary_features adds, as <<log_return, pct_return,
\* volatility_20, price_zscore>>
add_stationary_features(d) ==
    LET close == Close(d)
        prev  == Shift(close, 1)
        lr    == [i \in 1..Len(d) |-> Log(Div(close[i], prev[i]))] \o <<>>
        pct   == [i \in 1..Len(d) |-> Sub(Div(close[i], prev[i]), Num(1, 1))]
        vol   == RollingStd(lr, SMA_SHORT)
        mean  == RollingMean(close, SMA_LONG)
        std   == RollingStd(close, SMA_LONG)
        z     == [i \in 1..Len(d) |-> Div(Sub(close[i], mean[i]), std[i])]
    IN  <<lr, pct, vol, z>>

\* the window applied to the rows in file order and the sort after it
PreparedTruncateFirst(rows, aw) ==
    SortByTimestamp(IF aw THEN features_apply_rolling_window(rows, ROLLING_WINDOW_DAYS)
                    ELSE rows)

\* the sorted and truncated series process_data computes on (steps 0-1)
Prepared(rows, aw) ==
    LET s == SortByTimestamp(rows)
    IN  IF aw THEN features_apply_rolling_window(s, ROLLING_WINDOW_DAYS) ELSE s

\* >= in place of >
TargetDirectionGe(close) ==
    LET next == Shift(close, 0 - 1)
    IN  [i \in 1..Len(close) |->
            IF ~IsNaN(next[i]) /\ next[i][2] >= close[i][2] THEN 1 ELSE 0]

\* (df.shift(-1) > df).astype(int): a comparison with nan is False
TargetDirection(close) ==
    LET next == Shift(close, 0 - 1)
    IN  [i \in 1..Len(close) |->
            IF ~IsNaN(next[i]) /\ next[i][2] > close[i][2] THEN 1 ELSE 0]

\* the close two rows ahead
TargetPriceSkip(close) == Shift(close, 0 - 2)

TargetPrice(close) == Shift(close, 0 - 1)

\* the table with every column attached, before pruning (steps 2-4)
WithColumns(d) ==
    LET st    == add_stationary_features(d)
        sma20 == calculate_sma(d, SMA_SHORT)
        sma50 == calculate_sma(d, SMA_LONG)
        rsi   == calculate_rsi(d, RSI_WINDOW)
        macd  == calculate_macd(d, MACD_SLOW, MACD_FAST, MACD_SIGNAL)
        dir   == TargetDirection(Close(d))
        price == TargetPrice(Close(d))
    IN  [i \in 1..Len(d) |->
            [timestamp |-> d[i].timestamp, close |-> d[i].close,
             log_return |-> st[1][i], pct_return |-> st[2][i],
             volatility_20 |-> st[3][i], price_zscore |-> st[4][i],
             sma_20 |-> sma20[i], sma_50 |-> sma50[i], rsi |-> rsi[i],
             macd |-> macd[1][i], macd_signal |-> macd[2][i],
             target_direction |-> dir[i], target_price |-> price[i]]]

FloatColumns ==
    {"log_return", "pct_return", "volatility_20", "price_zscore", "sma_20",
     "sma_50", "rsi", "macd", "macd_signal", "target_price"}

HasNaN(r) == \E c \in FloatColumns : IsNaN(r[c])

\* only the rows before the longest window fills and the last row dropped
dropna_by_position(t) ==
    [i \in 1..Max(Len(t) - SMA_LONG, 0) |-> t[i + SMA_LONG - 1]]

\* a row dropped only when every one of its columns is undefined
dropna_how_all(t) == SelectSeq(t, LAMBDA r : \E c \in FloatColumns : ~IsNaN(r[c]))

\* df.dropna()
dropna(t) == SelectSeq(t, LAMBDA r : ~HasNaN(r))

\* the output written over the input file
process_data_over_input(fs, file_path, output_path, aw) ==
    LET out == dropna(WithColumns(Prepared(fs[file_path], aw)))
    IN  [df |-> out, files |-> [fs EXCEPT ![file_path] = out]]

\* process_data(file_path, output_path, apply_window): the table returned
\* and the files afterwards; it returns the pruned table whatever its length
process_data(fs, file_path, output_path, aw) ==
    LET out == dropna(WithColumns(Prepared(fs[file_path], aw)))
    IN  [df |-> out,
         files |-> IF output_path = "" THEN fs ELSE [fs EXCEPT ![output_path] = out]]

(***************************************************************************)
(* split.py                                                                *)
(***************************************************************************)
\* the first window_days rows kept instead of the last
split_apply_rolling_window_head(d, wd) ==
    IF Len(d) <= wd THEN d ELSE Head_(d, wd)

split_apply_rolling_window(d, wd) ==
    IF Len(d) <= wd THEN d ELSE Tail_(d, wd)

\* int(len(df) * (1 - test_size))
split_idx(n, ts) ==
    FloatToInt(FloatTimesNat(n, FloatOneMinus(FloatOfLiteral(ts[1], ts[2]))))

\* the row at the split index left out of both partitions
split_data_exclusive(d, ts, aw) ==
    LET w   == IF aw THEN split_apply_rolling_window(d, split_ROLLING_WINDOW_DAYS) ELSE d
        idx == split_idx(Len(w), ts)
    IN  <<SubSeq(w, 1, idx), SubSeq(w, idx + 2, Len(w))>>

\* the partitions handed back in the other order
split_data_swapped(d, ts, aw) ==
    LET w   == IF aw THEN split_apply_rolling_window(d, split_ROLLING_WINDOW_DAYS) ELSE d
        idx == split_idx(Len(w), ts)
    IN  <<SubSeq(w, idx + 1, Len(w)), SubSeq(w, 1, idx)>>

split_data(d, ts, aw) ==
    LET w   == IF aw THEN split_apply_rolling_window(d, split_ROLLING_WINDOW_DAYS) ELSE d
        idx == split_idx(Len(w), ts)
    IN  <<SubSeq(w, 1, idx), SubSeq(w, idx + 1, Len(w))>>

(***************************************************************************)
(* Inputs of the splitter: tables of n rows, each row a timestamp and the  *)
(* row's position in the table handed in.                                  *)
(***************************************************************************)
TableKinds == {"increasing", "gaps", "duplicates", "decreasing"}

TimestampAt(kind, n, i) ==
    CASE kind = "increasing" -> i
      [] kind = "gaps"       -> 3 * i - (i % 2)
      [] kind = "duplicates" -> (i + 1) \div 2
      [] kind = "decreasing" -> n + 1 - i

Table(kind, n) == [i \in 1..n |-> [timestamp |-> TimestampAt(kind, n, i), id |-> i]]

ShortRows == 0..MaxRows
LongRows  == {ROLLING_WINDOW_DAYS + k : k \in (0 - 1)..MaxOver}

\* the test fractions, as the decimal literals p/q the caller writes
Fractions == {f \in (1..9) \X {3, 4, 10} : f[1] < f[2]}

Idle == <<>>

\* no model fitted, no prediction asked for
InferIdle == fitted = Idle /\ inference = Idle

\* main_pipeline not started
BatchIdle ==
    /\ symbols = Idle /\ position = 0 /\ successful = Idle /\ failed = Idle
    /\ attempted = Idle /\ notified = Idle

\* no concurrent runs
ConcIdle ==
    /\ run_symbol = Idle /\ run_pos = Idle /\ written_by = {} /\ owner = Idle

\* no wrapped function called
RetryIdle ==
    /\ max_retries = 0 /\ delay = 0 /\ backoff = 0 /\ attempt = 0
    /\ current_delay = 0 /\ last_exception = Idle /\ calls = Idle
    /\ slept = Idle /\ returned = Idle

\* no model loaded, no prediction made
LoadIdle == on_disk = Idle /\ selected = "" /\ models = Idle /\ prediction = "none"

\* no session open
AlertIdle ==
    /\ pred_price = Idle /\ last_sent_alert = Idle /\ sent_alerts = Idle
    /\ reruns = 0

\* no monitor thread
MonitorIdle ==
    /\ now = 0 /\ notification_lock = 0 /\ sent_notifications = Idle
    /\ thread_pc = Idle /\ thread_symbol = Idle /\ alerts = Idle

\* no session opened
SessionIdle == session_state = Idle /\ monitor_threads = 0

\* the dashboard and the monitor not running
DashIdle == RetryIdle /\ LoadIdle /\ AlertIdle /\ MonitorIdle /\ SessionIdle

\* the files a training run writes for one symbol
ArtifactNames ==
    {"regression_model.pkl", "classification_model.pkl", "clustering_model.pkl",
     "pca_model.pkl", "metrics.json"}

\* no training run yet, nothing written
TrainerIdle ==
    /\ run_id = 0 /\ metrics = {} /\ called = {} /\ error = "none"
    /\ artifacts = [a \in ArtifactNames |-> 0]

\* nothing of the later stages has run
StagesIdle ==
    /\ windowed_split = Idle
    /\ columns = {} /\ features = Idle /\ printed = Idle
    /\ TrainerIdle

\* the paths of one symbol's raw and processed CSV
RawPath == "data/raw/SYM_daily.csv"
ProcessedPath == "data/processed/SYM_processed.csv"
NoFiles == [p \in {RawPath, ProcessedPath} |-> Idle]

SplitInit ==
    /\ StagesIdle
    /\ pc = "ready"
    /\ \E kind \in TableKinds, n \in ShortRows \cup LongRows : df = Table(kind, n)
    /\ test_size \in Fractions
    /\ apply_window \in BOOLEAN
    /\ train_df = Idle /\ test_df = Idle
    /\ files = NoFiles /\ runs = 0 /\ first_df = Idle
    /\ window_days = 0 /\ windowed = Idle
    /\ data = Idle /\ window = 0 /\ series = Idle
    /\ InferIdle
    /\ BatchIdle
    /\ ConcIdle
    /\ DashIdle

\* split_data(df, test_size, apply_window)
SplitData ==
    /\ pc = "ready"
    /\ LET r == split_data(df, test_size, apply_window)
       IN  train_df' = r[1] /\ test_df' = r[2]
    /\ pc' = "split"
    /\ UNCHANGED <<files, runs, first_df, apply_window, window_days, test_size, df, windowed, data,
                   window, series>>
    /\ UNCHANGED stage_vars
    /\ UNCHANGED infer_vars
    /\ UNCHANGED batch_vars
    /\ UNCHANGED conc_vars
    /\ UNCHANGED dash_vars

SplitNext == SplitData

SpecSplit == SplitInit /\ [][SplitNext]_vars

\* the table split_data partitions: its argument after window truncation
SplitInput == IF apply_window THEN split_apply_rolling_window(df, split_ROLLING_WINDOW_DAYS) ELSE df

StrictlyIncreasing(d) ==
    \A i \in 1..(Len(d) - 1) : d[i].timestamp < d[i + 1].timestamp

\* C1: on a table in strictly increasing timestamp order, whenever both
\* partitions are non-empty every timestamp of train is strictly smaller
\* than every timestamp of test (max of train < min of test).
C1_NoTemporalOverlap ==
    (pc = "split" /\ StrictlyIncreasing(df) /\ train_df # <<>> /\ test_df # <<>>)
        => \A i \in 1..Len(train_df), j \in 1..Len(test_df) :
               train_df[i].timestamp < test_df[j].timestamp

C1_Witness ==
    /\ pc = "split" /\ StrictlyIncreasing(df)
    /\ Len(train_df) >= 2 /\ Len(test_df) >= 2
    /\ Len(df) > ROLLING_WINDOW_DAYS /\ apply_window

\* C2: train holds exactly floor(n * (1 - test_fraction)) rows of the
\* window-truncated table and test the remaining rows.
C2_FloorSplit ==
    pc = "split" =>
        /\ Len(train_df) = (Len(SplitInput) * (test_size[2] - test_size[1])) \div test_size[2]
        /\ Len(test_df) = Len(SplitInput) - Len(train_df)

(***************************************************************************)
(* apply_rolling_window on its own, as features.py and as split.py define  *)
(* it, for every window length.                                            *)
(***************************************************************************)
ExampleRows == {500, 1000}

WindowInit ==
    /\ StagesIdle
    /\ pc = "ready"
    /\ \E n \in ShortRows \cup LongRows \cup ExampleRows : df = Table("increasing", n)
    /\ window_days \in (0..(MaxRows + 1)) \cup {ROLLING_WINDOW_DAYS}
    /\ windowed = Idle
    /\ test_size = <<2, 10>> /\ apply_window = TRUE
    /\ train_df = Idle /\ test_df = Idle
    /\ files = NoFiles /\ runs = 0 /\ first_df = Idle
    /\ data = Idle /\ window = 0 /\ series = Idle
    /\ InferIdle
    /\ BatchIdle
    /\ ConcIdle
    /\ DashIdle

\* features.apply_rolling_window(df, window_days)
FeaturesApplyRollingWindow ==
    /\ pc = "ready"
    /\ windowed' = features_apply_rolling_window(df, window_days)
    /\ pc' = "features_windowed"
    /\ UNCHANGED <<files, runs, first_df, apply_window, window_days, test_size, df, train_df, test_df,
                   data, window, series>>
    /\ UNCHANGED stage_vars
    /\ UNCHANGED infer_vars
    /\ UNCHANGED batch_vars
    /\ UNCHANGED conc_vars
    /\ UNCHANGED dash_vars

\* split.apply_rolling_window(df, window_days)
SplitApplyRollingWindow ==
    /\ pc = "ready"
    /\ windowed' = split_apply_rolling_window(df, window_days)
    /\ pc' = "split_windowed"
    /\ UNCHANGED <<files, runs, first_df, apply_window, window_days, test_size, df, train_df, test_df,
                   data, window, series>>
    /\ UNCHANGED stage_vars
    /\ UNCHANGED infer_vars
    /\ UNCHANGED batch_vars
    /\ UNCHANGED conc_vars
    /\ UNCHANGED dash_vars

WindowNext == FeaturesApplyRollingWindow \/ SplitApplyRollingWindow

SpecWindow == WindowInit /\ [][WindowNext]_vars

\* C3: apply_rolling_window returns exactly min(n, window_days) rows, the
\* last ones of its input in their original order (the whole input when
\* n <= window_days).
C3_RollingWindow ==
    pc \in {"features_windowed", "split_windowed"} =>
        /\ Len(windowed) = Min(Len(df), window_days)
        /\ \A i \in 1..Len(windowed) : windowed[i] = df[Len(df) - Len(windowed) + i]
        /\ (Len(df) <= window_days => windowed = df)

C3_Witness ==
    /\ pc = "features_windowed"
    /\ Len(df) = 1000 /\ window_days = ROLLING_WINDOW_DAYS
    /\ Len(windowed) = ROLLING_WINDOW_DAYS
    /\ windowed[1].id = 301

(***************************************************************************)
(* Price series: up to MaxSegs segments <<length, step>>, the close moving *)
(* by step from each row to the next; timestamps are the day numbers.      *)
(***************************************************************************)
SegLens == {1, 15, 50}
Steps == {0 - 1, 0, 1}
Segments == SegLens \X Steps

RECURSIVE Shapes(_)
Shapes(k) ==
    IF k = 0 THEN {<<>>}
    ELSE Shapes(k - 1) \cup {Append(s, g) : s \in Shapes(k - 1), g \in Segments}

RECURSIVE SegCloses(_, _)
SegCloses(segs, start) ==
    IF segs = <<>> THEN <<>>
    ELSE LET g == segs[1]
         IN  [i \in 1..g[1] |-> start + i * g[2]]
             \o SegCloses(Tail(segs), start + g[1] * g[2])

PriceSeries(segs) ==
    LET c == SegCloses(segs, BasePrice)
    IN  [i \in 1..Len(c) |-> [timestamp |-> i, close |-> c[i]]]

(***************************************************************************)
(* The indicator functions on their own.                                   *)
(***************************************************************************)
IndWindows == (1..MaxWin) \cup {RSI_WINDOW, SMA_SHORT, SMA_LONG}

IndInit ==
    /\ StagesIdle
    /\ pc = "ready"
    /\ \E segs \in Shapes(MaxSegs) : data = PriceSeries(segs)
    /\ window \in IndWindows
    /\ series = Idle
    /\ df = Idle /\ window_days = 0 /\ windowed = Idle
    /\ test_size = <<2, 10>> /\ apply_window = TRUE
    /\ train_df = Idle /\ test_df = Idle
    /\ files = NoFiles /\ runs = 0 /\ first_df = Idle
    /\ InferIdle
    /\ BatchIdle
    /\ ConcIdle
    /\ DashIdle

\* calculate_sma(data, window)
CalculateSma ==
    /\ pc = "ready"
    /\ series' = calculate_sma(data, window)
    /\ pc' = "sma"
    /\ UNCHANGED <<files, runs, first_df, apply_window, window_days, test_size, df, train_df, test_df,
                   windowed, data, window>>
    /\ UNCHANGED stage_vars
    /\ UNCHANGED infer_vars
    /\ UNCHANGED batch_vars
    /\ UNCHANGED conc_vars
    /\ UNCHANGED dash_vars

\* calculate_rsi(data, window)
CalculateRsi ==
    /\ pc = "ready"
    /\ series' = calculate_rsi(data, window)
    /\ pc' = "rsi"
    /\ UNCHANGED <<files, runs, first_df, apply_window, window_days, test_size, df, train_df, test_df,
                   windowed, data, window>>
    /\ UNCHANGED stage_vars
    /\ UNCHANGED infer_vars
    /\ UNCHANGED batch_vars
    /\ UNCHANGED conc_vars
    /\ UNCHANGED dash_vars

IndNext == CalculateSma \/ CalculateRsi

SpecInd == IndInit /\ [][IndNext]_vars

\* the sum of the closes of rows lo..hi, added up one by one
RECURSIVE SumClose(_, _, _)
SumClose(d, lo, hi) ==
    IF lo > hi THEN 0
    ELSE IF lo = hi THEN d[lo].close
    ELSE LET mid == (lo + hi) \div 2
         IN  SumClose(d, lo, mid) + SumClose(d, mid + 1, hi)

ConstantClose(d) == \A i \in 1..Len(d) : d[i].close = d[1].close
IncreasingClose(d) == \A i \in 1..(Len(d) - 1) : d[i].close < d[i + 1].close

\* C9: calculate_sma with window w is undefined for exactly the first w-1
\* rows and for every later row is the arithmetic mean of the close of that
\* row and the w-1 rows before it; on a constant-price series every defined
\* SMA-20 and SMA-50 value is that price.
C9_Sma ==
    pc = "sma" =>
        /\ \A i \in 1..Len(data) :
              /\ i < window => IsNaN(series[i])
              /\ i >= window =>
                    /\ series[i][1] = "num"
                    /\ series[i][2] * window
                          = SumClose(data, i - window + 1, i) * series[i][3]
        /\ (ConstantClose(data) /\ window \in {SMA_SHORT, SMA_LONG}) =>
              \A i \in 1..Len(data) :
                  IsNaN(series[i]) \/ ValEq(series[i], Num(data[1].close, 1))

C9_Witness ==
    /\ pc = "sma" /\ window = SMA_LONG
    /\ Len(data) > SMA_LONG /\ ~ConstantClose(data)
    /\ IsNaN(series[SMA_LONG - 1]) /\ ~IsNaN(series[Len(data)])

\* C10: on a strictly increasing close series calculate_rsi with window 14
\* is exactly 100 on every row from the 14th on (the rows whose window is
\* full), not an undefined value.
C10_RsiSaturates ==
    (pc = "rsi" /\ window = RSI_WINDOW /\ IncreasingClose(data)) =>
        \A i \in RSI_WINDOW..Len(data) : ValEq(series[i], Num(100, 1))

C10_Witness ==
    /\ pc = "rsi" /\ window = RSI_WINDOW /\ IncreasingClose(data)
    /\ Len(data) > SMA_LONG
    /\ ValEq(series[RSI_WINDOW], Num(100, 1))
    /\ ValEq(series[Len(data)], Num(100, 1))

(***************************************************************************)
(* The Feature Builder: process_data run, and run again, on one symbol's   *)
(* raw file, as process_stock_data calls it.                               *)
(***************************************************************************)
Orders == {"ascending", "descending", "interleaved"}

\* the rows of a price series in the order the raw file holds them
FileOrder(d, order) ==
    LET n == Len(d)
        h == (n + 1) \div 2
    IN  CASE order = "ascending"   -> d
          [] order = "descending"  -> [i \in 1..n |-> d[n + 1 - i]]
          [] order = "interleaved" ->
                [i \in 1..n |-> IF i % 2 = 1 THEN d[h + 1 - ((i + 1) \div 2)]
                                ELSE d[h + (i \div 2)]]

LongShapes == {<<<<ROLLING_WINDOW_DAYS + k, 1>>>> : k \in 1..MaxOver}

\* the raw files with the arguments: every series sorted, with the window
\* on; the series that open with a rise as long as the longest indicator
\* window and have at most one more segment, and the long ones, in every
\* other combination too
Varied == {s \in Shapes(MaxSegs) : Len(s) \in {1, 2} /\ s[1] = <<SMA_LONG, 1>>}

FeatInputs ==
    (Shapes(MaxSegs) \X {"ascending"} \X {TRUE})
        \cup (Varied \X Orders \X BOOLEAN)
        \cup (LongShapes \X {"interleaved"} \X BOOLEAN)

FeatInit ==
    /\ StagesIdle
    /\ pc = "ready"
    /\ \E in \in FeatInputs :
          /\ files = [NoFiles EXCEPT ![RawPath] = FileOrder(PriceSeries(in[1]), in[2])]
          /\ apply_window = in[3]
    /\ runs = 0 /\ first_df = Idle /\ df = Idle
    /\ window_days = 0 /\ windowed = Idle /\ test_size = <<2, 10>>
    /\ train_df = Idle /\ test_df = Idle
    /\ data = Idle /\ window = 0 /\ series = Idle
    /\ InferIdle
    /\ BatchIdle
    /\ ConcIdle
    /\ DashIdle

\* process_data(file_path, output_path, apply_window), called on the raw
\* file and then once more with the same arguments
ProcessData ==
    /\ runs < 2
    /\ \E r \in {process_data(files, RawPath, ProcessedPath, apply_window)} :
           /\ df' = r.df
           /\ files' = r.files
           /\ first_df' = IF runs = 0 THEN r.df ELSE first_df
    /\ runs' = runs + 1
    /\ pc' = "processed"
    /\ UNCHANGED <<apply_window, window_days, test_size, train_df, test_df,
                   windowed, data, window, series>>
    /\ UNCHANGED stage_vars
    /\ UNCHANGED infer_vars
    /\ UNCHANGED batch_vars
    /\ UNCHANGED conc_vars
    /\ UNCHANGED dash_vars

FeatNext == ProcessData

SpecFeat == FeatInit /\ [][FeatNext]_vars

\* the raw file as process_data reads it, and the series it computes on
Raw == files[RawPath]
Series == Prepared(Raw, apply_window)

Unsorted(rows) == \E i \in 1..(Len(rows) - 1) : rows[i].timestamp > rows[i + 1].timestamp

\* C4: every row of the table process_data returns carries, as target_price,
\* the close of the row that immediately follows it in the sorted and
\* truncated input series, and the final row of that series is not in the
\* table.
C4_TargetPrice ==
    pc = "processed" =>
        LET s == Series
            n == Len(s)
        IN  /\ \A k \in 1..Len(df) :
                  \E i \in 1..(n - 1) :
                      /\ s[i].timestamp = df[k].timestamp
                      /\ df[k].target_price = Num(s[i + 1].close, 1)
            /\ \A k \in 1..Len(df) : df[k].timestamp # s[n].timestamp

C4_Witness ==
    /\ pc = "processed" /\ apply_window
    /\ Len(Raw) > ROLLING_WINDOW_DAYS /\ Unsorted(Raw)
    /\ Len(df) > 0
    /\ df[Len(df)].timestamp = Len(Raw) - 1
    /\ df[Len(df)].target_price = Num(BasePrice + Len(Raw), 1)

\* C5: every row of the table process_data returns has target_direction 1
\* exactly when the close of the next row of the series is strictly greater
\* than its own close, and 0 otherwise; an equal next close gives 0.
C5_TargetDirection ==
    pc = "processed" =>
        LET s == Series
        IN  \A k \in 1..Len(df) :
                \E i \in 1..(Len(s) - 1) :
                    /\ s[i].timestamp = df[k].timestamp
                    /\ df[k].target_direction
                          = IF s[i + 1].close > s[i].close THEN 1 ELSE 0

C5_Witness ==
    /\ pc = "processed"
    /\ \E k \in 1..Len(df) :
          /\ df[k].target_price = Num(df[k].close, 1)
          /\ df[k].target_direction = 0

\* C6: every row of the table process_data returns has a defined value in
\* every feature column and in both target columns: no row with a
\* not-a-number value in any of them survives the pruning.
C6_NoUndefined ==
    pc = "processed" =>
        \A k \in 1..Len(df) :
            /\ \A c \in FloatColumns : ~IsNaN(df[k][c])
            /\ df[k].target_direction \in {0, 1}

C6_Witness ==
    /\ pc = "processed"
    /\ Len(df) > 0
    /\ Len(df) < Len(Raw) - SMA_LONG
    /\ \E k \in 1..Len(df) : df[k].rsi = Num(100, 1)

\* C7: process_data does not return an empty table: when the pruning leaves
\* zero rows it fails with a data-insufficiency error instead.
C7_NoEmptyTable ==
    pc = "processed" => Len(df) > 0

ColsInit ==
    /\ StagesIdle
    /\ pc = "ready"
    /\ \E segs \in Shapes(MaxSegs) : data = PriceSeries(segs)
    /\ df = Idle
    /\ window = 0 /\ series = Idle /\ window_days = 0 /\ windowed = Idle
    /\ test_size = <<2, 10>> /\ apply_window = TRUE
    /\ train_df = Idle /\ test_df = Idle
    /\ files = NoFiles /\ runs = 0 /\ first_df = Idle
    /\ InferIdle
    /\ BatchIdle
    /\ ConcIdle
    /\ DashIdle

\* steps 2-4 of process_data on a sorted table
AttachColumns ==
    /\ pc = "ready"
    /\ df' = WithColumns(data) \o <<>>
    /\ pc' = "columns"
    /\ UNCHANGED <<files, runs, first_df, apply_window, window_days, test_size,
                   train_df, test_df, windowed, data, window, series>>
    /\ UNCHANGED stage_vars
    /\ UNCHANGED infer_vars
    /\ UNCHANGED batch_vars
    /\ UNCHANGED conc_vars
    /\ UNCHANGED dash_vars

ColsNext == AttachColumns

SpecCols == ColsInit /\ [][ColsNext]_vars

FeatureColumns ==
    {"sma_20", "sma_50", "rsi", "macd", "log_return", "pct_return",
     "volatility_20", "price_zscore"}

\* C11: the indicators are undefined only for insufficient history: on every
\* row that has at least 49 earlier rows, sma_20, sma_50, rsi, macd,
\* log_return, pct_return, volatility_20 and price_zscore are all defined,
\* flat stretches included.
C11_DefinedAfterWarmup ==
    pc = "columns" =>
        \A i \in SMA_LONG..Len(df) :
            \A c \in FeatureColumns : ~IsNaN(df[i][c])

(***************************************************************************)
(* One table put through the truncation of the feature-building path and   *)
(* through that of the splitting path.                                     *)
(***************************************************************************)
\* split.apply_rolling_window(df, window_days), on the table and window
\* features.apply_rolling_window was called with
SplitApplyRollingWindowToo ==
    /\ pc = "features_windowed"
    /\ windowed_split' = split_apply_rolling_window(df, window_days)
    /\ pc' = "both_windowed"
    /\ UNCHANGED <<files, runs, first_df, apply_window, window_days, test_size,
                   df, train_df, test_df, windowed, data, window, series>>
    /\ UNCHANGED <<columns, features, printed, run_id, metrics, artifacts,
                   called, error>>
    /\ UNCHANGED infer_vars
    /\ UNCHANGED batch_vars
    /\ UNCHANGED conc_vars
    /\ UNCHANGED dash_vars

BothNext == FeaturesApplyRollingWindow \/ SplitApplyRollingWindowToo

SpecBoth == WindowInit /\ [][BothNext]_vars

\* C12: for every table and every window length features.apply_rolling_window
\* and split.apply_rolling_window return the same rows, and the default
\* window of both is 700.
C12_SameWindow ==
    /\ ROLLING_WINDOW_DAYS = 700 /\ split_ROLLING_WINDOW_DAYS = 700
    /\ pc = "both_windowed" => windowed_split = windowed

C12_Witness ==
    /\ pc = "both_windowed"
    /\ window_days = split_ROLLING_WINDOW_DAYS
    /\ Len(df) > window_days
    /\ Len(windowed_split) = window_days
    /\ windowed_split = windowed
    /\ windowed_split[1] = df[Len(df) - window_days + 1]

(***************************************************************************)
(* process_stock_data followed by the split_data call of                   *)
(* train_and_evaluate, both with their default arguments.                  *)
(***************************************************************************)
\* raw files long enough that more than ROLLING_WINDOW_DAYS rows would
\* survive the pruning were the table not truncated first
VeryLongShapes ==
    {<<<<ROLLING_WINDOW_DAYS + SMA_LONG + k, 1>>>> : k \in 0..MaxOver}

PipeInputs ==
    (Shapes(MaxSegs) \X {"ascending"})
        \cup (Varied \X Orders)
        \cup (VeryLongShapes \X {"interleaved"})

PipeInit ==
    /\ StagesIdle
    /\ pc = "ready"
    /\ \E in \in PipeInputs :
          files = [NoFiles EXCEPT ![RawPath] = FileOrder(PriceSeries(in[1]), in[2])]
    /\ apply_window = TRUE /\ test_size = <<2, 10>>
    /\ runs = 0 /\ first_df = Idle /\ df = Idle
    /\ window_days = 0 /\ windowed = Idle
    /\ train_df = Idle /\ test_df = Idle
    /\ data = Idle /\ window = 0 /\ series = Idle
    /\ InferIdle
    /\ BatchIdle
    /\ ConcIdle
    /\ DashIdle

\* process_stock_data(file_path, symbol)
ProcessStockData ==
    /\ pc = "ready"
    /\ \E r \in {process_data(files, RawPath, ProcessedPath, apply_window)} :
           /\ df' = r.df
           /\ files' = r.files
    /\ pc' = "processed"
    /\ UNCHANGED <<runs, first_df, apply_window, window_days, test_size,
                   train_df, test_df, windowed, data, window, series>>
    /\ UNCHANGED stage_vars
    /\ UNCHANGED infer_vars
    /\ UNCHANGED batch_vars
    /\ UNCHANGED conc_vars
    /\ UNCHANGED dash_vars

\* train_df, test_df = split_data(df), the first step of train_and_evaluate
SplitProcessed ==
    /\ pc = "processed"
    /\ \E r \in {split_data(df, test_size, apply_window)} :
           train_df' = r[1] /\ test_df' = r[2]
    /\ pc' = "split"
    /\ UNCHANGED <<files, runs, first_df, apply_window, window_days, test_size,
                   df, windowed, data, window, series>>
    /\ UNCHANGED stage_vars
    /\ UNCHANGED infer_vars
    /\ UNCHANGED batch_vars
    /\ UNCHANGED conc_vars
    /\ UNCHANGED dash_vars

PipeNext == ProcessStockData \/ SplitProcessed

SpecPipe == PipeInit /\ [][PipeNext]_vars

\* C13: the rolling window applied again inside split_data, to the table
\* process_data already truncated, removes nothing: the rows split_data
\* partitions are exactly the rows process_data returned, in their order.
C13_SecondWindowNoOp ==
    pc = "split" => train_df \o test_df = df

C13_Witness ==
    /\ pc = "split"
    /\ Len(files[RawPath]) > ROLLING_WINDOW_DAYS + SMA_LONG
    /\ Len(df) = ROLLING_WINDOW_DAYS - SMA_LONG
    /\ Len(train_df) > 0 /\ Len(test_df) > 0
    /\ Len(train_df) + Len(test_df) = Len(df)

(***************************************************************************)
(* train.py: ModelTrainer.  A table is seen by the Trainer through its set *)
(* of column names.                                                        *)
(***************************************************************************)
base_feature_cols == <<"sma_20", "sma_50", "rsi", "macd">>
stationary_feature_cols ==
    <<"log_return", "pct_return", "volatility_20", "price_zscore">>
feature_cols == base_feature_cols \o stationary_feature_cols

Range(xs) == {xs[i] : i \in 1..Len(xs)}

\* [col for col in cols if col in df.columns]
Present(cols, dfcols) == SelectSeq(cols, LAMBDA c : c \in dfcols)

\* _get_available_features(df): the list returned and the lines printed
get_available_features(dfcols) ==
    LET available == Present(feature_cols, dfcols)
        missing   == SelectSeq(feature_cols, LAMBDA c : c \notin dfcols)
        used      == IF Len(available) = 0 THEN Present(base_feature_cols, dfcols)
                     ELSE available
    IN  [features |-> used,
         printed  |-> (IF missing # <<>> THEN <<<<"Missing features", missing>>>>
                       ELSE <<>>)
                      \o <<<<"Using features", used>>>>]

\* the columns a table may have besides the feature columns
OtherColumns == {"timestamp", "close", "target_direction", "target_price"}

FeaturesInit ==
    /\ pc = "ready"
    /\ \E present \in SUBSET Range(feature_cols), others \in {{}, OtherColumns} :
          columns = present \cup others
    /\ features = Idle /\ printed = Idle
    /\ windowed_split = Idle /\ TrainerIdle
    /\ files = NoFiles /\ runs = 0 /\ first_df = Idle /\ df = Idle
    /\ apply_window = TRUE /\ test_size = <<2, 10>>
    /\ window_days = 0 /\ windowed = Idle
    /\ train_df = Idle /\ test_df = Idle
    /\ data = Idle /\ window = 0 /\ series = Idle
    /\ InferIdle
    /\ BatchIdle
    /\ ConcIdle
    /\ DashIdle

\* ModelTrainer._get_available_features(df)
GetAvailableFeatures ==
    /\ pc = "ready"
    /\ \E r \in {get_available_features(columns)} :
           features' = r.features /\ printed' = r.printed
    /\ pc' = "features"
    /\ UNCHANGED <<files, runs, first_df, apply_window, window_days, test_size,
                   df, train_df, test_df, windowed, data, window, series>>
    /\ UNCHANGED <<windowed_split, columns, run_id, metrics, artifacts, called,
                   error>>
    /\ UNCHANGED infer_vars
    /\ UNCHANGED batch_vars
    /\ UNCHANGED conc_vars
    /\ UNCHANGED dash_vars

FeaturesNext == GetAvailableFeatures

SpecFeatures == FeaturesInit /\ [][FeaturesNext]_vars

\* C14: when a stationary feature column is absent from the table (one of
\* them or all four), _get_available_features returns exactly the base
\* feature subset [sma_20, sma_50, rsi, macd], and the list it prints as
\* used is the list it returns.
C14_DegradesToBase ==
    (/\ pc = "features"
     /\ Range(base_feature_cols) \subseteq columns
     /\ ~(Range(stationary_feature_cols) \subseteq columns))
        => /\ features = base_feature_cols
           /\ printed[Len(printed)] = <<"Using features", features>>

(***************************************************************************)
(* The four training methods.  Each is given the Trainer state, the        *)
(* columns of the table and the row counts it works on, and yields the     *)
(* exception it raises ("none" when it returns) with the Trainer state and *)
(* the files after it.  The estimators of scikit-learn reject a table of   *)
(* zero rows or zero columns with a ValueError, at fit and at predict.     *)
(***************************************************************************)
Trainer(m, a) == [metrics |-> m, artifacts |-> a]

Raised(tr, e) == [error |-> e, metrics |-> tr.metrics, artifacts |-> tr.artifacts]

\* the target_direction values of a table
Classes(t) == {t[i].target_direction : i \in 1..Len(t)}

\* the model file written before anything is checked
train_regression_dump_first(tr, run, dfcols, train, test) ==
    [error |-> IF Len(train) = 0 \/ Len(test) = 0 THEN "ValueError" ELSE "none",
     metrics |-> tr.metrics,
     artifacts |-> [tr.artifacts EXCEPT !["regression_model.pkl"] = run]]

\* ModelTrainer.train_regression(train_df, test_df)
train_regression(tr, run, dfcols, train, test) ==
    LET feats == get_available_features(dfcols).features
    IN  IF "target_price" \notin dfcols THEN Raised(tr, "KeyError")
        ELSE IF Len(feats) = 0 \/ Len(train) = 0 THEN Raised(tr, "ValueError")
        ELSE IF Len(test) = 0 THEN Raised(tr, "ValueError")
        ELSE [error |-> "none",
              metrics |-> tr.metrics \cup {"regression"},
              artifacts |-> [tr.artifacts EXCEPT !["regression_model.pkl"] = run]]

\* ModelTrainer.train_classification(train_df, test_df); the SVC of the
\* ensemble cannot be fitted on fewer than two classes
train_classification(tr, run, dfcols, train, test) ==
    LET feats == get_available_features(dfcols).features
    IN  IF "target_direction" \notin dfcols THEN Raised(tr, "KeyError")
        ELSE IF Len(feats) = 0 \/ Len(train) = 0 THEN Raised(tr, "ValueError")
        ELSE IF Cardinality(Classes(train)) < 2 THEN Raised(tr, "ValueError")
        ELSE IF Len(test) = 0 THEN Raised(tr, "ValueError")
        ELSE [error |-> "none",
              metrics |-> tr.metrics \cup {"classification"},
              artifacts |-> [tr.artifacts EXCEPT !["classification_model.pkl"] = run]]

\* the rows train_clustering fits on: without a volatility column it adds
\* one and drops the rows where the rolling window is not yet full
ClusterRows(dfcols, n) ==
    IF "volatility" \in dfcols THEN n ELSE Max(n - CLUSTER_VOL_WINDOW, 0)

\* ModelTrainer.train_clustering(df)
train_clustering(tr, run, dfcols, n) ==
    IF "volatility" \notin dfcols /\ "close" \notin dfcols THEN Raised(tr, "KeyError")
    ELSE IF "rsi" \notin dfcols THEN Raised(tr, "KeyError")
    ELSE IF ClusterRows(dfcols, n) < N_CLUSTERS THEN Raised(tr, "ValueError")
    ELSE [error |-> "none",
          metrics |-> tr.metrics,
          artifacts |-> [tr.artifacts EXCEPT !["clustering_model.pkl"] = run]]

\* the columns of the caller's table after train_clustering: the method
\* assigns returns and volatility to the table it was handed
ColumnsAfterClustering(dfcols) ==
    IF "volatility" \notin dfcols /\ "close" \in dfcols
    THEN dfcols \cup {"returns", "volatility"}
    ELSE dfcols

\* train_pca with the columns chosen as the other methods choose them
train_pca_available(tr, run, dfcols, n) ==
    IF Len(get_available_features(dfcols).features) < N_COMPONENTS \/ n < N_COMPONENTS
    THEN Raised(tr, "ValueError")
    ELSE [error |-> "none",
          metrics |-> tr.metrics \cup {"pca"},
          artifacts |-> [tr.artifacts EXCEPT !["pca_model.pkl"] = run]]

\* ModelTrainer.train_pca(df): df[self.feature_cols] needs all eight columns
train_pca(tr, run, dfcols, n) ==
    IF ~(Range(feature_cols) \subseteq dfcols) THEN Raised(tr, "KeyError")
    ELSE IF n < N_COMPONENTS THEN Raised(tr, "ValueError")
    ELSE [error |-> "none",
          metrics |-> tr.metrics \cup {"pca"},
          artifacts |-> [tr.artifacts EXCEPT !["pca_model.pkl"] = run]]

(***************************************************************************)
(* A ModelTrainer at work on the partitions split_data made of one table.  *)
(***************************************************************************)
Patterns == {"up", "down", "mixed", "late"}

\* a table of n rows for the Trainer: the row's day and its label
TrainTable(pattern, n) ==
    [i \in 1..n |->
        [timestamp |-> i,
         target_direction |->
             CASE pattern = "up"    -> 1
               [] pattern = "down"  -> 0
               [] pattern = "mixed" -> i % 2
               [] pattern = "late"  -> IF i = n THEN 1 ELSE 0]]

AllColumns == Range(feature_cols) \cup OtherColumns

\* the column sets of the tables: a process_data table, one without the
\* stationary columns, one without one of them
ColumnSets ==
    {AllColumns,
     AllColumns \ Range(stationary_feature_cols),
     AllColumns \ {"price_zscore"}}

TrainerInit ==
    /\ pc = "ready"
    /\ \E pattern \in Patterns, n \in 0..MaxTrainRows : df = TrainTable(pattern, n)
    /\ columns \in ColumnSets
    /\ run_id = 1 /\ metrics = {} /\ called = {} /\ error = "none"
    /\ artifacts = [a \in ArtifactNames |-> 0]
    /\ features = Idle /\ printed = Idle /\ windowed_split = Idle
    /\ apply_window = TRUE /\ test_size = <<2, 10>>
    /\ train_df = Idle /\ test_df = Idle
    /\ files = NoFiles /\ runs = 0 /\ first_df = Idle
    /\ window_days = 0 /\ windowed = Idle
    /\ data = Idle /\ window = 0 /\ series = Idle
    /\ InferIdle
    /\ BatchIdle
    /\ ConcIdle
    /\ DashIdle

\* trainer.train_regression(...)
TrainRegression ==
    /\ pc = "split" /\ "train_regression" \notin called
    /\ \E r \in {train_regression(Trainer(metrics, artifacts), run_id, columns,
                                     train_df, test_df)} :
           metrics' = r.metrics /\ artifacts' = r.artifacts /\ error' = r.error
    /\ called' = called \cup {"train_regression"}
    /\ UNCHANGED <<pc, files, runs, first_df, apply_window, window_days, test_size,
                   df, train_df, test_df, windowed, data, window, series>>
    /\ UNCHANGED <<windowed_split, columns, features, printed, run_id>>
    /\ UNCHANGED infer_vars
    /\ UNCHANGED batch_vars
    /\ UNCHANGED conc_vars
    /\ UNCHANGED dash_vars

\* trainer.train_classification(...)
TrainClassification ==
    /\ pc = "split" /\ "train_classification" \notin called
    /\ \E r \in {train_classification(Trainer(metrics, artifacts), run_id, columns,
                                         train_df, test_df)} :
           metrics' = r.metrics /\ artifacts' = r.artifacts /\ error' = r.error
    /\ called' = called \cup {"train_classification"}
    /\ UNCHANGED <<pc, files, runs, first_df, apply_window, window_days, test_size,
                   df, train_df, test_df, windowed, data, window, series>>
    /\ UNCHANGED <<windowed_split, columns, features, printed, run_id>>
    /\ UNCHANGED infer_vars
    /\ UNCHANGED batch_vars
    /\ UNCHANGED conc_vars
    /\ UNCHANGED dash_vars

\* trainer.train_clustering(...)
TrainClustering ==
    /\ pc = "split" /\ "train_clustering" \notin called
    /\ \E r \in {train_clustering(Trainer(metrics, artifacts), run_id, columns,
                                     Len(df))} :
           metrics' = r.metrics /\ artifacts' = r.artifacts /\ error' = r.error
    /\ called' = called \cup {"train_clustering"}
    /\ columns' = ColumnsAfterClustering(columns)
    /\ UNCHANGED <<pc, files, runs, first_df, apply_window, window_days, test_size,
                   df, train_df, test_df, windowed, data, window, series>>
    /\ UNCHANGED <<windowed_split, features, printed, run_id>>
    /\ UNCHANGED infer_vars
    /\ UNCHANGED batch_vars
    /\ UNCHANGED conc_vars
    /\ UNCHANGED dash_vars

\* trainer.train_pca(...)
TrainPca ==
    /\ pc = "split" /\ "train_pca" \notin called
    /\ \E r \in {train_pca(Trainer(metrics, artifacts), run_id, columns, Len(df))} :
           metrics' = r.metrics /\ artifacts' = r.artifacts /\ error' = r.error
    /\ called' = called \cup {"train_pca"}
    /\ UNCHANGED <<pc, files, runs, first_df, apply_window, window_days, test_size,
                   df, train_df, test_df, windowed, data, window, series>>
    /\ UNCHANGED <<windowed_split, columns, features, printed, run_id>>
    /\ UNCHANGED infer_vars
    /\ UNCHANGED batch_vars
    /\ UNCHANGED conc_vars
    /\ UNCHANGED dash_vars

TrainerNext ==
    \/ SplitData
    \/ TrainRegression
    \/ TrainClassification
    \/ TrainClustering
    \/ TrainPca

SpecTrainer == TrainerInit /\ [][TrainerNext]_vars

\* C15: on a table that has the base columns, close and the targets but no
\* stationary column, none of train_regression, train_classification,
\* train_clustering and train_pca raises a missing-column error.
C15_NoMissingColumnError ==
    (/\ pc = "split"
     /\ Range(base_feature_cols) \cup OtherColumns \subseteq columns
     /\ Range(stationary_feature_cols) \cap columns = {})
        => error # "KeyError"

(***************************************************************************)
(* Inference: the feature vector the monitor and the dashboard hand to the *)
(* persisted regression and classification models.                         *)
(***************************************************************************)
\* np.array([[data['sma_20'], data['sma_50'], data['rsi'], data['macd']]])
InferenceFeatures == <<"sma_20", "sma_50", "rsi", "macd">>

\* train_regression / train_classification fit and persist a model on the
\* columns _get_available_features gives for the table
FitAndPersist ==
    /\ pc = "ready"
    /\ get_available_features(columns).features # <<>>
    /\ fitted' = get_available_features(columns).features
    /\ pc' = "fitted"
    /\ UNCHANGED <<files, runs, first_df, apply_window, window_days, test_size,
                   df, train_df, test_df, windowed, data, window, series>>
    /\ UNCHANGED <<stage_vars, inference>>
    /\ UNCHANGED batch_vars
    /\ UNCHANGED conc_vars
    /\ UNCHANGED dash_vars

\* check_ticker(symbol): the features it builds for predict / predict_proba
CheckTickerFeatures ==
    /\ pc = "fitted"
    /\ inference' = InferenceFeatures
    /\ pc' = "monitor_inferred"
    /\ UNCHANGED <<files, runs, first_df, apply_window, window_days, test_size,
                   df, train_df, test_df, windowed, data, window, series>>
    /\ UNCHANGED <<stage_vars, fitted>>
    /\ UNCHANGED batch_vars
    /\ UNCHANGED conc_vars
    /\ UNCHANGED dash_vars

\* the dashboard's main logic: the same vector built in app.py
DashboardFeatures ==
    /\ pc = "fitted"
    /\ inference' = InferenceFeatures
    /\ pc' = "dashboard_inferred"
    /\ UNCHANGED <<files, runs, first_df, apply_window, window_days, test_size,
                   df, train_df, test_df, windowed, data, window, series>>
    /\ UNCHANGED <<stage_vars, fitted>>
    /\ UNCHANGED batch_vars
    /\ UNCHANGED conc_vars
    /\ UNCHANGED dash_vars

InferNext == FitAndPersist \/ CheckTickerFeatures \/ DashboardFeatures

SpecInfer == FeaturesInit /\ [][InferNext]_vars

\* C16: the feature vector handed to a persisted model at inference, by
\* check_ticker and by the dashboard, has the same columns in the same order
\* as the feature subset the Trainer used when it fitted that model on a
\* process_data table.
C16_InferenceMatchesTraining ==
    (/\ pc \in {"monitor_inferred", "dashboard_inferred"}
     /\ Range(feature_cols) \subseteq columns)
        => inference = fitted

(***************************************************************************)
(* flows.py: main_pipeline.  Whether a stage raises depends on the network *)
(* and on the data, so each stage either returns or raises one of the      *)
(* exceptions it can raise.                                                *)
(***************************************************************************)
Tickers == {"AAPL", "MSFT"}

SymbolLists == UNION {[1..k -> Tickers] : k \in 1..MaxSymbols}

\* the exceptions a stage of the iteration can raise
StageErrors(stage) ==
    CASE stage = "fetch"   -> {"Exception", "ValueError"}
      [] stage = "process" -> {"KeyError"}
      [] stage = "train"   -> {"ValueError", "KeyError"}

\* notify_discord(message): hands the message on and returns
notify_discord(log, message) == Append(log, message)

\* a notification that can also raise
NotifyOutcomesRaising == {"sent", "failed", "raised"}

\* what a call of notify_discord comes to: it returns a pair whose first
\* part says whether the message went out, and the flow ignores the pair
NotifyOutcomes == {"sent", "failed"}

\* the messages that went out, after a call with outcome o
Notified(log, message, o) ==
    IF o = "sent" THEN notify_discord(log, message) ELSE log

\* a handler for ValueError only
CaughtValueErrorOnly(e) == e = "ValueError"

\* except Exception: every exception of the stages is an Exception
Caught(e) == e \in {"Exception", "ValueError", "KeyError"}

BatchInit ==
    /\ pc = "ready"
    /\ symbols \in SymbolLists
    /\ position = 0 /\ successful = Idle /\ failed = Idle
    /\ attempted = Idle /\ notified = Idle
    /\ StagesIdle /\ InferIdle
    /\ files = NoFiles /\ runs = 0 /\ first_df = Idle /\ df = Idle
    /\ apply_window = TRUE /\ test_size = <<2, 10>>
    /\ window_days = 0 /\ windowed = Idle
    /\ train_df = Idle /\ test_df = Idle
    /\ data = Idle /\ window = 0 /\ series = Idle
    /\ ConcIdle
    /\ DashIdle

\* the position of the loop after the iteration at position p
AfterIteration(p) == IF p + 1 > Len(symbols) THEN "summarise" ELSE "fetch"

\* the except clause of the loop body, or the exception leaving the flow;
\* succ is the list successful as the try block left it
Handle(e, succ) ==
    IF Caught(e)
    THEN \E o \in NotifyOutcomes :
            /\ failed' = Append(failed, <<symbols[position], e>>)
            /\ successful' = succ
            /\ IF o = "raised"
               THEN pc' = "aborted" /\ UNCHANGED <<notified, position>>
               ELSE /\ notified' = Notified(notified, <<"failed", symbols[position]>>, o)
                    /\ position' = position + 1
                    /\ pc' = AfterIteration(position)
    ELSE /\ pc' = "aborted"
         /\ successful' = succ
         /\ UNCHANGED <<failed, notified, position>>

\* main_pipeline up to the loop
BatchStart ==
    /\ pc = "ready"
    /\ \E o \in NotifyOutcomes :
          IF o = "raised"
          THEN pc' = "aborted" /\ UNCHANGED <<notified, successful, failed, position>>
          ELSE /\ notified' = Notified(notified, <<"starting", Len(symbols)>>, o)
               /\ successful' = <<>> /\ failed' = <<>>
               /\ position' = 1
               /\ pc' = "fetch"
    /\ UNCHANGED <<symbols, attempted>>
    /\ UNCHANGED <<files, runs, first_df, apply_window, window_days, test_size,
                   df, train_df, test_df, windowed, data, window, series>>
    /\ UNCHANGED <<stage_vars, infer_vars>>
    /\ UNCHANGED conc_vars
    /\ UNCHANGED dash_vars

\* the loop body up to raw_path = fetch_stock_data(symbol)
BatchFetch ==
    /\ pc = "fetch"
    /\ attempted' = Append(attempted, symbols[position])
    /\ \E e \in {"none"} \cup StageErrors("fetch") :
          IF e = "none"
          THEN pc' = "process" /\ UNCHANGED <<failed, notified, position, successful>>
          ELSE Handle(e, successful)
    /\ UNCHANGED symbols
    /\ UNCHANGED <<files, runs, first_df, apply_window, window_days, test_size,
                   df, train_df, test_df, windowed, data, window, series>>
    /\ UNCHANGED <<stage_vars, infer_vars>>
    /\ UNCHANGED conc_vars
    /\ UNCHANGED dash_vars

\* df = process_stock_data(raw_path, symbol)
BatchProcess ==
    /\ pc = "process"
    /\ \E e \in {"none"} \cup StageErrors("process") :
          IF e = "none"
          THEN pc' = "train" /\ UNCHANGED <<failed, notified, position, successful>>
          ELSE Handle(e, successful)
    /\ UNCHANGED <<symbols, attempted>>
    /\ UNCHANGED <<files, runs, first_df, apply_window, window_days, test_size,
                   df, train_df, test_df, windowed, data, window, series>>
    /\ UNCHANGED <<stage_vars, infer_vars>>
    /\ UNCHANGED conc_vars
    /\ UNCHANGED dash_vars

\* train_and_evaluate(df, symbol) and the rest of the loop body
BatchTrain ==
    /\ pc = "train"
    /\ \E e \in {"none"} \cup StageErrors("train") :
          IF e = "none"
          THEN \E o \in NotifyOutcomes :
                  IF o = "raised"
                  THEN Handle("Exception", Append(successful, symbols[position]))
                  ELSE /\ successful' = Append(successful, symbols[position])
                       /\ notified' = Notified(notified,
                                               <<"completed", symbols[position]>>, o)
                       /\ position' = position + 1
                       /\ pc' = AfterIteration(position)
                       /\ UNCHANGED failed
          ELSE Handle(e, successful)
    /\ UNCHANGED <<symbols, attempted>>
    /\ UNCHANGED <<files, runs, first_df, apply_window, window_days, test_size,
                   df, train_df, test_df, windowed, data, window, series>>
    /\ UNCHANGED <<stage_vars, infer_vars>>
    /\ UNCHANGED conc_vars
    /\ UNCHANGED dash_vars

\* the summary after the loop
BatchSummary ==
    /\ pc = "summarise"
    /\ \E o \in NotifyOutcomes :
          IF o = "raised"
          THEN pc' = "aborted" /\ UNCHANGED notified
          ELSE /\ notified' = Notified(notified,
                                       <<"summary", Len(successful), Len(symbols)>>, o)
               /\ pc' = "summary"
    /\ UNCHANGED <<symbols, position, successful, failed, attempted>>
    /\ UNCHANGED <<files, runs, first_df, apply_window, window_days, test_size,
                   df, train_df, test_df, windowed, data, window, series>>
    /\ UNCHANGED <<stage_vars, infer_vars>>
    /\ UNCHANGED conc_vars
    /\ UNCHANGED dash_vars

BatchNext ==
    \/ BatchStart
    \/ BatchFetch
    \/ BatchProcess
    \/ BatchTrain
    \/ BatchSummary

\* the flow runs on while it has a step to take
SpecBatch == BatchInit /\ [][BatchNext]_vars /\ WF_vars(BatchNext)

\* C17: for every list of symbols and every pattern of per-ticker failures
\* in fetch, processing or training, no exception leaves the loop, and the
\* run reaches its final summary with every symbol of the list attempted.
C17_BatchContinues ==
    /\ [](pc # "aborted")
    /\ <>(pc = "summary" /\ attempted = symbols
                          /\ Len(successful) + Len(failed) = Len(symbols))

C17_Witness ==
    /\ pc = "summary"
    /\ Len(symbols) = MaxSymbols
    /\ attempted = symbols
    /\ Len(failed) = 2 /\ failed[1][1] = symbols[1] /\ failed[2][2] = "KeyError"
    /\ successful = <<symbols[Len(symbols)]>>

(***************************************************************************)
(* Two pipeline runs at the same time, each for one symbol.  A run writes  *)
(* its files one after the other; nothing orders the writes of one run     *)
(* against those of the other.                                             *)
(***************************************************************************)
Runs == {1, 2}

\* the files a pipeline run writes, in the order it writes them
WriteSteps ==
    <<"raw", "processed", "regression_model.pkl", "classification_model.pkl",
      "clustering_model.pkl", "pca_model.pkl", "metrics.json">>

\* the Trainer built with its default directories, models and reports
PathOfDefaultDirs(symbol, step) ==
    CASE step = "raw"           -> <<"data/raw", symbol, "_daily.csv">>
      [] step = "processed"     -> <<"data/processed", symbol, "_processed.csv">>
      [] step = "metrics.json"  -> <<"reports", "", step>>
      [] OTHER                  -> <<"models", "", step>>

\* the path of each file: data/raw/{symbol}_daily.csv,
\* data/processed/{symbol}_processed.csv, models/{symbol}/<model file>,
\* reports/{symbol}/metrics.json
PathOf(symbol, step) ==
    CASE step = "raw"           -> <<"data/raw", symbol, "_daily.csv">>
      [] step = "processed"     -> <<"data/processed", symbol, "_processed.csv">>
      [] step = "metrics.json"  -> <<"reports", symbol, step>>
      [] OTHER                  -> <<"models", symbol, step>>

ConcInit ==
    /\ pc = "concurrent"
    /\ run_symbol \in [Runs -> Tickers]
    /\ run_pos = [r \in Runs |-> 0]
    /\ written_by = {}
    /\ owner = <<>>
    /\ StagesIdle /\ InferIdle /\ BatchIdle
    /\ files = NoFiles /\ runs = 0 /\ first_df = Idle /\ df = Idle
    /\ apply_window = TRUE /\ test_size = <<2, 10>>
    /\ window_days = 0 /\ windowed = Idle
    /\ train_df = Idle /\ test_df = Idle
    /\ data = Idle /\ window = 0 /\ series = Idle
    /\ DashIdle

\* run r writes its next file
Write(r) ==
    LET path == PathOf(run_symbol[r], WriteSteps[run_pos[r] + 1])
    IN  /\ written_by' = written_by \cup {<<path, r>>}
        /\ owner' = [p \in (DOMAIN owner) \cup {path} |->
                          IF p = path THEN r ELSE owner[p]]
        /\ run_pos' = [run_pos EXCEPT ![r] = @ + 1]
        /\ UNCHANGED run_symbol

\* fetch_stock_data(symbol) of run r: the raw CSV
RunFetch(r) ==
    /\ run_pos[r] = 0
    /\ Write(r)
    /\ UNCHANGED <<pc, files, runs, first_df, apply_window, window_days, test_size,
                   df, train_df, test_df, windowed, data, window, series>>
    /\ UNCHANGED <<stage_vars, infer_vars, batch_vars>>
    /\ UNCHANGED dash_vars

\* process_stock_data(file_path, symbol) of run r: the processed CSV
RunProcess(r) ==
    /\ run_pos[r] = 1
    /\ Write(r)
    /\ UNCHANGED <<pc, files, runs, first_df, apply_window, window_days, test_size,
                   df, train_df, test_df, windowed, data, window, series>>
    /\ UNCHANGED <<stage_vars, infer_vars, batch_vars>>
    /\ UNCHANGED dash_vars

\* train_and_evaluate(df, symbol) of run r, one file at a time: the four
\* model files and then the metrics file
RunTrainAndEvaluate(r) ==
    /\ run_pos[r] \in 2..(Len(WriteSteps) - 1)
    /\ Write(r)
    /\ UNCHANGED <<pc, files, runs, first_df, apply_window, window_days, test_size,
                   df, train_df, test_df, windowed, data, window, series>>
    /\ UNCHANGED <<stage_vars, infer_vars, batch_vars>>
    /\ UNCHANGED dash_vars

ConcNext == \E r \in Runs : RunFetch(r) \/ RunProcess(r) \/ RunTrainAndEvaluate(r)

SpecConc == ConcInit /\ [][ConcNext]_vars

RunDone(r) == run_pos[r] = Len(WriteSteps)

\* C18: every file a run writes lies at a path keyed by its symbol, so in
\* any interleaving of two runs for different symbols no file is written by
\* both; two runs for the same symbol are not kept apart: each writes every
\* file of the symbol, whatever the other has written.
C18_SymbolKeyedPaths ==
    pc = "concurrent" =>
        /\ \A w \in written_by : w[1][2] = run_symbol[w[2]]
        /\ \A p \in DOMAIN owner :
              (<<p, 1>> \in written_by /\ <<p, 2>> \in written_by)
                  => run_symbol[1] = run_symbol[2]
        /\ (run_symbol[1] = run_symbol[2] /\ RunDone(1) /\ RunDone(2))
              => \A p \in DOMAIN owner :
                     <<p, 1>> \in written_by /\ <<p, 2>> \in written_by

C18_Witness ==
    /\ pc = "concurrent"
    /\ run_symbol[1] = run_symbol[2]
    /\ RunDone(1) /\ RunDone(2)
    /\ owner[PathOf(run_symbol[1], "regression_model.pkl")] = 1
    /\ owner[PathOf(run_symbol[1], "classification_model.pkl")] = 2
    /\ owner[PathOf(run_symbol[1], "metrics.json")] = 1

\* C19: on a table too short for the fraction (0 or 1 rows) split_data
\* returns with an empty train partition; train_regression and
\* train_classification called on an empty partition raise, write no model
\* file and record no metrics entry for their model.
C19_EmptyPartitionFails ==
    pc = "split" =>
        /\ Len(df) <= 1 => (train_df = <<>> /\ test_df = df)
        /\ (train_df = <<>> \/ test_df = <<>>) =>
              /\ "train_regression" \in called =>
                    /\ artifacts["regression_model.pkl"] = 0
                    /\ "regression" \notin metrics
              /\ "train_classification" \in called =>
                    /\ artifacts["classification_model.pkl"] = 0
                    /\ "classification" \notin metrics
              /\ (called # {} /\ called \subseteq {"train_regression",
                                                    "train_classification"})
                    => error # "none"

C19_Witness ==
    /\ pc = "split"
    /\ Len(df) = 1 /\ train_df = <<>> /\ Len(test_df) = 1
    /\ called = {"train_regression", "train_classification"}
    /\ error = "ValueError"
    /\ metrics = {}
    /\ \A a \in ArtifactNames : artifacts[a] = 0

(***************************************************************************)
(* train_and_evaluate run again and again for one symbol, each time on the *)
(* table of the day.                                                       *)
(***************************************************************************)
\* the one element of a set of one element: a value computed once
Only(S) == CHOOSE x \in S : TRUE

\* the training methods in the order train_and_evaluate calls them; the
\* first exception ends the run
train_and_evaluate(arts, run, table, dfcols) ==
    Only({Only({IF r1.error # "none" THEN r1 ELSE
      Only({IF r2.error # "none" THEN r2 ELSE
        Only({IF r3.error # "none" THEN r3 ELSE
          Only({IF r4.error # "none" THEN r4 ELSE
                [error |-> "none", metrics |-> r4.metrics,
                 artifacts |-> [r4.artifacts EXCEPT !["metrics.json"] = run]]
            : r4 \in {train_pca(Trainer(r3.metrics, r3.artifacts), run,
                                ColumnsAfterClustering(dfcols), Len(table))}})
          : r3 \in {train_clustering(Trainer(r2.metrics, r2.artifacts), run,
                                     dfcols, Len(table))}})
        : r2 \in {train_classification(Trainer(r1.metrics, r1.artifacts), run,
                                       dfcols, parts[1], parts[2])}})
      : r1 \in {train_regression(Trainer({}, arts), run, dfcols,
                                 parts[1], parts[2])}})
    : parts \in {split_data(table, <<2, 10>>, TRUE)}})

\* the lengths of the tables of the day: too short for any model, for the
\* classifier, for the clustering, just long enough, and the longest
RetrainRows == {0, 1, N_COMPONENTS, CLUSTER_VOL_WINDOW + N_CLUSTERS, MaxTrainRows}

RetrainInit ==
    /\ pc = "ready"
    /\ run_id = 0 /\ metrics = {} /\ called = {} /\ error = "none"
    /\ artifacts = [a \in ArtifactNames |-> 0]
    /\ columns = {} /\ df = Idle
    /\ features = Idle /\ printed = Idle /\ windowed_split = Idle
    /\ InferIdle /\ BatchIdle /\ ConcIdle
    /\ apply_window = TRUE /\ test_size = <<2, 10>>
    /\ train_df = Idle /\ test_df = Idle
    /\ files = NoFiles /\ runs = 0 /\ first_df = Idle
    /\ window_days = 0 /\ windowed = Idle
    /\ data = Idle /\ window = 0 /\ series = Idle
    /\ DashIdle

\* train_and_evaluate(df, symbol)
TrainAndEvaluate ==
    /\ run_id < MaxTrainRuns
    /\ \E pattern \in Patterns, n \in RetrainRows, cols \in ColumnSets :
          /\ df' = TrainTable(pattern, n)
          /\ columns' = cols
          /\ \E r \in {train_and_evaluate(artifacts, run_id + 1,
                                            TrainTable(pattern, n), cols)} :
                 metrics' = r.metrics /\ artifacts' = r.artifacts /\ error' = r.error
    /\ run_id' = run_id + 1
    /\ pc' = "trained"
    /\ UNCHANGED <<files, runs, first_df, apply_window, window_days, test_size,
                   train_df, test_df, windowed, data, window, series>>
    /\ UNCHANGED <<windowed_split, features, printed, called>>
    /\ UNCHANGED <<infer_vars, batch_vars, conc_vars>>
    /\ UNCHANGED dash_vars

RetrainNext == TrainAndEvaluate

SpecRetrain == RetrainInit /\ [][RetrainNext]_vars

\* C20: after any sequence of train_and_evaluate runs for one symbol, runs
\* that fail partway included, the regression, classification, clustering
\* and PCA model files and the metrics file on disk all come from one and
\* the same training run.
C20_OneRunPerSymbol ==
    pc = "trained" =>
        \A a, b \in ArtifactNames :
            (artifacts[a] # 0 /\ artifacts[b] # 0) => artifacts[a] = artifacts[b]

(***************************************************************************)
(* process_data on a raw file whose rows are not in timestamp order.       *)
(***************************************************************************)
\* asc holds the rows of the file, each once, in ascending timestamp order
IsAscendingOf(asc, rows) ==
    /\ Len(asc) = Len(rows)
    /\ Range(asc) = Range(rows)
    /\ \A i \in 1..(Len(asc) - 1) : asc[i].timestamp < asc[i + 1].timestamp

\* C22: process_data sorts by timestamp before it truncates and before it
\* computes anything: for an unordered raw file the rows the rolling window
\* keeps are the ROLLING_WINDOW_DAYS latest by timestamp, in ascending
\* order, and the table returned is the one returned for the same rows
\* supplied in ascending order.
C22_SortedBeforeWindow ==
    (pc = "processed" /\ Unsorted(Raw)) =>
        LET asc == SortByTimestamp(Raw)
            m   == IF apply_window THEN Min(Len(Raw), ROLLING_WINDOW_DAYS) ELSE Len(Raw)
        IN  /\ IsAscendingOf(asc, Raw)
            /\ Series = Tail_(asc, m)
            /\ df = process_data([NoFiles EXCEPT ![RawPath] = asc], RawPath,
                                 ProcessedPath, apply_window).df

C22_Witness ==
    /\ pc = "processed" /\ apply_window /\ Unsorted(Raw)
    /\ Len(Raw) > ROLLING_WINDOW_DAYS
    /\ Raw[Len(Raw)].timestamp <= Len(Raw) - ROLLING_WINDOW_DAYS
    /\ Len(df) > 0
    /\ df[1].timestamp > Len(Raw) - ROLLING_WINDOW_DAYS

\* C26: for a series whose indicators are all defined once history
\* suffices, process_data returns exactly max(0, m - SMA_LONG) rows, m being
\* the length of the sorted and truncated series (min(n,
\* ROLLING_WINDOW_DAYS) with the window on): the rows from the SMA_LONG-th
\* to the last but one; a series of SMA_LONG rows or fewer gives no row.
C26_RowCount ==
    pc = "processed" =>
        LET s == Series
            m == Len(s)
            t == WithColumns(s)
        IN  /\ apply_window => m = Min(Len(Raw), ROLLING_WINDOW_DAYS)
            /\ (\A i \in SMA_LONG..(m - 1) : ~HasNaN(t[i])) =>
                  /\ Len(df) = Max(m - SMA_LONG, 0)
                  /\ \A k \in 1..Len(df) :
                        df[k].timestamp = s[k + SMA_LONG - 1].timestamp

C26_Witness ==
    /\ pc = "processed" /\ apply_window
    /\ Len(Raw) > ROLLING_WINDOW_DAYS
    /\ Len(df) = ROLLING_WINDOW_DAYS - SMA_LONG
    /\ df[1].timestamp = Len(Raw) - ROLLING_WINDOW_DAYS + SMA_LONG
    /\ LET t == WithColumns(Series)
       IN  \A i \in SMA_LONG..(ROLLING_WINDOW_DAYS - 1) : ~HasNaN(t[i])

(***************************************************************************)
(* The two lists main_pipeline keeps.                                      *)
(***************************************************************************)
\* how many times symbol t stands in the list xs
Count(t, xs) == Cardinality({i \in 1..Len(xs) : xs[i] = t})

C28_NothingLost ==
    pc = "split" => train_df \o test_df = SplitInput

C28_Witness ==
    /\ pc = "split" /\ apply_window
    /\ Len(df) > split_ROLLING_WINDOW_DAYS
    /\ train_df # <<>> /\ test_df # <<>>
    /\ train_df[1] = df[Len(df) - split_ROLLING_WINDOW_DAYS + 1]
    /\ test_df[Len(test_df)] = df[Len(df)]
    /\ Len(train_df) + Len(test_df) = split_ROLLING_WINDOW_DAYS

\* C29: train_clustering leaves the table its caller passed unchanged (the
\* same columns and rows afterwards), so the table train_pca is given next
\* is the one process_data produced.
C29_ClusteringLeavesTable ==
    [][TrainClustering => (columns' = columns /\ df' = df)]_vars

(***************************************************************************)
(* app.py: a function wrapped by retry_api_call(max_retries, delay,        *)
(* backoff), called once.  A call of func returns or raises.               *)
(***************************************************************************)
\* what a call of func comes to: "ok", or the exception it raises
FuncOutcomes == {"ok", "ConnectionError", "Timeout"}

Delays == {1, 2}
Backoffs == {1, 2, 3}

\* a sleep after every failed attempt, the last one too
ShouldSleepAlways(made, k) == TRUE

\* if attempt < max_retries - 1, made being attempt + 1
ShouldSleep(made, k) == made - 1 < k - 1

RetryInit ==
    /\ pc = "ready"
    /\ max_retries \in 1..MaxRetries /\ delay \in Delays /\ backoff \in Backoffs
    /\ attempt = 0 /\ current_delay = delay /\ last_exception = Idle
    /\ calls = Idle /\ slept = Idle /\ returned = Idle
    /\ LoadIdle /\ AlertIdle /\ MonitorIdle /\ SessionIdle
    /\ StagesIdle /\ InferIdle /\ BatchIdle /\ ConcIdle
    /\ files = NoFiles /\ runs = 0 /\ first_df = Idle /\ df = Idle
    /\ apply_window = TRUE /\ test_size = <<2, 10>>
    /\ window_days = 0 /\ windowed = Idle
    /\ train_df = Idle /\ test_df = Idle
    /\ data = Idle /\ window = 0 /\ series = Idle

\* one pass of the wrapper's loop: func called, and what follows the call;
\* the pass that ends the loop goes on to raise last_exception
WrapperAttempt ==
    /\ returned = Idle /\ attempt < max_retries
    /\ \E o \in FuncOutcomes :
          /\ calls' = Append(calls, o)
          /\ attempt' = attempt + 1
          /\ IF o = "ok"
             THEN /\ returned' = <<"result", attempt + 1>>
                  /\ UNCHANGED <<last_exception, slept, current_delay>>
             ELSE /\ last_exception' = <<o, attempt + 1>>
                  /\ IF ShouldSleep(attempt + 1, max_retries)
                     THEN /\ slept' = Append(slept, current_delay)
                          /\ current_delay' = current_delay * backoff
                     ELSE UNCHANGED <<slept, current_delay>>
                  /\ returned' = IF attempt + 1 < max_retries THEN Idle
                                 ELSE <<"raised", <<o, attempt + 1>>>>
    /\ pc' = "wrapped"
    /\ UNCHANGED <<max_retries, delay, backoff>>
    /\ UNCHANGED <<load_vars, alert_vars, monitor_vars, session_vars>>
    /\ UNCHANGED <<files, runs, first_df, apply_window, window_days, test_size,
                   df, train_df, test_df, windowed, data, window, series>>
    /\ UNCHANGED <<stage_vars, infer_vars, batch_vars, conc_vars>>

RetryNext == WrapperAttempt

SpecRetry == RetryInit /\ [][RetryNext]_vars

\* C25: a function wrapped by retry_api_call(max_retries=k) is called at
\* most k times; the wrapper returns the result of the first call that
\* succeeds and calls no more, raises the exception of the last call
\* exactly when all k calls fail, and does not sleep after the final failed
\* attempt (it sleeps once after every other failed attempt).
C25_RetryAtMostK ==
    pc = "wrapped" =>
        LET n        == Len(calls)
            failures == Cardinality({i \in 1..n : calls[i] # "ok"})
            all_fail == n = max_retries /\ failures = max_retries
        IN  /\ n <= max_retries
            /\ \A i \in 1..(n - 1) : calls[i] # "ok"
            /\ (calls[n] = "ok") <=> (returned = <<"result", n>>)
            /\ all_fail <=> (returned # Idle /\ returned[1] = "raised")
            /\ all_fail => returned = <<"raised", <<calls[n], n>>>>
            /\ Len(slept) = IF all_fail THEN failures - 1 ELSE failures

C25_Witness ==
    /\ pc = "wrapped"
    /\ max_retries = MaxRetries
    /\ Len(calls) = MaxRetries
    /\ returned = <<"raised", <<"Timeout", MaxRetries>>>>
    /\ calls[1] = "ConnectionError"
    /\ Len(slept) = MaxRetries - 1

(***************************************************************************)
(* app.py: the dashboard loads the models of the selected symbol and       *)
(* predicts.  A model file that is absent or does not load is not on_disk. *)
(***************************************************************************)
ModelTypes == {"regression", "classification", "clustering"}

\* what a directory yields: the models whose file exists and loads
Loaded(disk, symbol) == disk[symbol]

\* load_models_local(symbol): the dict of the models loaded if any loaded,
\* else what the call for AAPL returns, else None
load_models_local(disk, symbol) ==
    IF Loaded(disk, symbol) # {} THEN <<Loaded(disk, symbol)>>
    ELSE IF symbol # "AAPL" /\ Loaded(disk, "AAPL") # {}
         THEN <<Loaded(disk, "AAPL")>>
    ELSE <<>>

\* step 3 of the main logic: nothing without models; else the regression
\* and the classification model are looked up in the dict
Predict(m) ==
    IF m = <<>> THEN "none"
    ELSE IF "regression" \notin m[1] \/ "classification" \notin m[1] THEN "KeyError"
    ELSE "predicted"

LoadInit ==
    /\ pc = "ready"
    /\ on_disk \in [Tickers -> SUBSET ModelTypes]
    /\ selected \in Tickers
    /\ models = Idle /\ prediction = "none"
    /\ RetryIdle /\ AlertIdle /\ MonitorIdle /\ SessionIdle
    /\ StagesIdle /\ InferIdle /\ BatchIdle /\ ConcIdle
    /\ files = NoFiles /\ runs = 0 /\ first_df = Idle /\ df = Idle
    /\ apply_window = TRUE /\ test_size = <<2, 10>>
    /\ window_days = 0 /\ windowed = Idle
    /\ train_df = Idle /\ test_df = Idle
    /\ data = Idle /\ window = 0 /\ series = Idle

\* one run of the script for the selected symbol: steps 2 and 3
LoadAndPredict ==
    /\ pc = "ready"
    /\ \E m \in {load_models_local(on_disk, selected)} :
          models' = m /\ prediction' = Predict(m)
    /\ pc' = "shown"
    /\ UNCHANGED <<on_disk, selected>>
    /\ UNCHANGED <<retry_vars, alert_vars, monitor_vars, session_vars>>
    /\ UNCHANGED <<files, runs, first_df, apply_window, window_days, test_size,
                   df, train_df, test_df, windowed, data, window, series>>
    /\ UNCHANGED <<stage_vars, infer_vars, batch_vars, conc_vars>>

LoadNext == LoadAndPredict

SpecLoad == LoadInit /\ [][LoadNext]_vars

\* C21: for every subset of the regression, classification and clustering
\* artifacts that is missing or fails to load, for the selected symbol and
\* for the AAPL fallback, the prediction step does not raise: it predicts
\* with a complete model set or shows no prediction.
C21_MissingModelExpected ==
    pc = "shown" =>
        \/ prediction = "none"
        \/ prediction = "predicted" /\ models = <<ModelTypes>>

(***************************************************************************)
(* app.py: one dashboard session.  Every rerun of the script predicts for  *)
(* the ticker selected and may send an alert; the live data and the        *)
(* models are cached, so a symbol's prediction is the same in every run.   *)
(* Prices are in mills (thousandths).                                      *)
(***************************************************************************)
\* data['price'] of each symbol
LivePrice == [t \in Tickers |-> IF t = "AAPL" THEN 10000 ELSE 20000]

\* the prices the regression model may predict for a symbol: no move, and
\* two moves of one per cent that differ below the cent
PredictedPrices(t) ==
    {LivePrice[t], LivePrice[t] + LivePrice[t] \div 100,
     LivePrice[t] + LivePrice[t] \div 100 + 4}

\* f"{predicted_price:.2f}"
TwoDecimals(p) == (p + 5) \div 10

\* get_prediction_id(symbol, date_str, predicted_price): the digest of the
\* string, which is one for one with the triple
get_prediction_id(symbol, date_str, predicted_price) ==
    <<symbol, date_str, TwoDecimals(predicted_price)>>

\* abs(prediction_change_pct) >= 0.5, the current price being positive
Significant(price, predicted) ==
    LET d == IF predicted >= price THEN predicted - price ELSE price - predicted
    IN  d * 200 >= price

\* not (st.session_state.last_sent_alert != current_prediction_id)
AlreadySent(last, id) == last = id

AlertInit ==
    /\ pc = "ready"
    /\ pred_price \in [Tickers -> UNION {PredictedPrices(t) : t \in Tickers}]
    /\ \A t \in Tickers : pred_price[t] \in PredictedPrices(t)
    /\ last_sent_alert = Idle /\ sent_alerts = Idle /\ reruns = 0
    /\ on_disk = Idle /\ selected = "" /\ models = Idle /\ prediction = "none"
    /\ RetryIdle /\ MonitorIdle /\ SessionIdle
    /\ StagesIdle /\ InferIdle /\ BatchIdle /\ ConcIdle
    /\ files = NoFiles /\ runs = 0 /\ first_df = Idle /\ df = Idle
    /\ apply_window = TRUE /\ test_size = <<2, 10>>
    /\ window_days = 0 /\ windowed = Idle
    /\ train_df = Idle /\ test_df = Idle
    /\ data = Idle /\ window = 0 /\ series = Idle

\* one run of the script with a ticker selected: the prediction, and the
\* alert when the move is significant and its id is not the last one sent;
\* send_discord_alert succeeds or not
Rerun ==
    /\ reruns < MaxReruns
    /\ \E symbol \in Tickers :
          /\ selected' = symbol
          /\ LET id == get_prediction_id(symbol, "today", pred_price[symbol])
             IN  IF /\ Significant(LivePrice[symbol], pred_price[symbol])
                    /\ ~AlreadySent(last_sent_alert, id)
                 THEN \E success \in BOOLEAN :
                         IF success
                         THEN /\ last_sent_alert' = id
                              /\ sent_alerts' = Append(sent_alerts, id)
                         ELSE UNCHANGED <<last_sent_alert, sent_alerts>>
                 ELSE UNCHANGED <<last_sent_alert, sent_alerts>>
    /\ reruns' = reruns + 1
    /\ pc' = "shown"
    /\ UNCHANGED <<pred_price, on_disk, models, prediction>>
    /\ UNCHANGED <<retry_vars, monitor_vars, session_vars>>
    /\ UNCHANGED <<files, runs, first_df, apply_window, window_days, test_size,
                   df, train_df, test_df, windowed, data, window, series>>
    /\ UNCHANGED <<stage_vars, infer_vars, batch_vars, conc_vars>>

AlertNext == Rerun

SpecAlert == AlertInit /\ [][AlertNext]_vars

\* C24: within one dashboard session an alert for a given prediction id
\* (symbol, date, predicted price to two decimals) is sent successfully at
\* most once, over any sequence of reruns and ticker selections.
C24_AlertOncePerPrediction ==
    \A i, j \in 1..Len(sent_alerts) : sent_alerts[i] = sent_alerts[j] => i = j

(***************************************************************************)
(* monitor.py: monitor threads calling check_ticker, each for one symbol   *)
(* after the other, while time passes.  A call whose prediction is below   *)
(* the threshold touches nothing and is left out.                          *)
(***************************************************************************)
Monitors == {1, 2}

\* the steps of the clock between two steps of the threads
Ticks == {CHECK_INTERVAL - 1, CHECK_INTERVAL}

\* a lock that every thread can take at any time
AcquireAnyway(holder) == TRUE

\* with notification_lock: the lock is free
Acquire(holder) == holder = 0

\* should_send: last_check_time is None or CHECK_INTERVAL has passed
should_send(sent, symbol, time) ==
    \/ sent[symbol] = <<>>
    \/ time - sent[symbol][2] >= CHECK_INTERVAL

MonitorInit ==
    /\ pc = "monitoring"
    /\ now = 0 /\ notification_lock = 0
    /\ sent_notifications = [t \in Tickers |-> <<>>]
    /\ thread_pc = [m \in Monitors |-> "idle"]
    /\ thread_symbol = [m \in Monitors |-> ""]
    /\ alerts = <<>>
    /\ RetryIdle /\ LoadIdle /\ AlertIdle /\ SessionIdle
    /\ StagesIdle /\ InferIdle /\ BatchIdle /\ ConcIdle
    /\ files = NoFiles /\ runs = 0 /\ first_df = Idle /\ df = Idle
    /\ apply_window = TRUE /\ test_size = <<2, 10>>
    /\ window_days = 0 /\ windowed = Idle
    /\ train_df = Idle /\ test_df = Idle
    /\ data = Idle /\ window = 0 /\ series = Idle

\* what the steps of the monitor leave alone
MonitorFrame ==
    /\ UNCHANGED <<pc, files, runs, first_df, apply_window, window_days, test_size,
                   df, train_df, test_df, windowed, data, window, series>>
    /\ UNCHANGED <<stage_vars, infer_vars, batch_vars, conc_vars>>
    /\ UNCHANGED <<retry_vars, load_vars, alert_vars, session_vars>>

\* time passes
Tick ==
    /\ \E d \in Ticks :
          /\ now + d <= MaxIntervals * CHECK_INTERVAL
          /\ now' = now + d
    /\ UNCHANGED <<notification_lock, sent_notifications, thread_pc,
                   thread_symbol, alerts>>
    /\ MonitorFrame

\* check_ticker(symbol) of thread m, threshold met: the lock taken, and
\* should_send computed; the lock is given back at once when it is False
Check(m) ==
    /\ thread_pc[m] = "idle"
    /\ Acquire(notification_lock)
    /\ \E symbol \in Tickers :
          /\ thread_symbol' = [thread_symbol EXCEPT ![m] = symbol]
          /\ IF should_send(sent_notifications, symbol, now)
             THEN /\ thread_pc' = [thread_pc EXCEPT ![m] = "sending"]
                  /\ notification_lock' = m
             ELSE UNCHANGED <<thread_pc, notification_lock>>
    /\ UNCHANGED <<now, sent_notifications, alerts>>
    /\ MonitorFrame

\* send_discord_alert(...) of thread m: the alert goes out, or it does not
\* and the lock is given back
Send(m) ==
    /\ thread_pc[m] = "sending"
    /\ \E success \in BOOLEAN :
          IF success
          THEN /\ alerts' = Append(alerts, <<thread_symbol[m], now>>)
               /\ thread_pc' = [thread_pc EXCEPT ![m] = "sent"]
               /\ UNCHANGED notification_lock
          ELSE /\ thread_pc' = [thread_pc EXCEPT ![m] = "idle"]
               /\ notification_lock' = IF notification_lock = m THEN 0
                                        ELSE notification_lock
               /\ UNCHANGED alerts
    /\ UNCHANGED <<now, sent_notifications, thread_symbol>>
    /\ MonitorFrame

\* if success: sent_notifications[symbol] = (id, time.time()), and the lock
\* given back
Record(m) ==
    /\ thread_pc[m] = "sent"
    /\ sent_notifications' =
          [sent_notifications EXCEPT ![thread_symbol[m]] = <<"id", now>>]
    /\ thread_pc' = [thread_pc EXCEPT ![m] = "idle"]
    /\ notification_lock' = IF notification_lock = m THEN 0 ELSE notification_lock
    /\ UNCHANGED <<now, thread_symbol, alerts>>
    /\ MonitorFrame

MonitorNext ==
    \/ Tick
    \/ \E m \in Monitors : Check(m) \/ Send(m) \/ Record(m)

SpecMonitor == MonitorInit /\ [][MonitorNext]_vars

\* C23: for each symbol any two successful alerts sent by check_ticker are
\* at least CHECK_INTERVAL apart, under any interleaving of the monitor
\* threads; sent_notifications[symbol] is set only after a successful send,
\* and a failed send leaves it as it was.
C23_AlertsApart ==
    /\ [](\A i, j \in 1..Len(alerts) :
             (i < j /\ alerts[i][1] = alerts[j][1])
                 => alerts[j][2] - alerts[i][2] >= CHECK_INTERVAL)
    /\ [](\A t \in DOMAIN sent_notifications :
             sent_notifications[t] # <<>> =>
                 \E i \in 1..Len(alerts) :
                     alerts[i][1] = t /\ alerts[i][2] <= sent_notifications[t][2])
    /\ [][\A m \in Monitors :
              (thread_pc[m] = "sending" /\ thread_pc'[m] = "idle")
                  => sent_notifications' = sent_notifications]_vars

C23_Witness ==
    /\ pc = "monitoring"
    /\ Len(alerts) = 3
    /\ alerts[1] = <<"AAPL", 0>>
    /\ alerts[3] = <<"AAPL", 2 * CHECK_INTERVAL - 1>>
    /\ sent_notifications["AAPL"] = <<"id", CHECK_INTERVAL - 1>>
    /\ thread_pc[2] = "sent"

(***************************************************************************)
(* app.py: the sessions of one dashboard process.  Each session has its    *)
(* own st.session_state, and the script runs from the top at every rerun   *)
(* of a session; the monitor threads belong to the process.                *)
(***************************************************************************)
Sessions == 1..MaxSessions

SessionInit ==
    /\ pc = "serving"
    /\ session_state = [s \in Sessions |-> [monitor_started |-> "absent", runs |-> 0]]
    /\ monitor_threads = 0
    /\ RetryIdle /\ LoadIdle /\ AlertIdle /\ MonitorIdle
    /\ StagesIdle /\ InferIdle /\ BatchIdle /\ ConcIdle
    /\ files = NoFiles /\ runs = 0 /\ first_df = Idle /\ df = Idle
    /\ apply_window = TRUE /\ test_size = <<2, 10>>
    /\ window_days = 0 /\ windowed = Idle
    /\ train_df = Idle /\ test_df = Idle
    /\ data = Idle /\ window = 0 /\ series = Idle

\* start_monitor(): a thread created and started
start_monitor(threads) == threads + 1

\* one run of the script in session s, as far as the monitor goes: without
\* the key in the session's state start_monitor is called and the key set,
\* to False when the call raised
ScriptRun(s) ==
    /\ session_state[s].runs < MaxReruns
    /\ IF session_state[s].monitor_started = "absent"
       THEN \E raised \in BOOLEAN :
               /\ monitor_threads' = IF raised THEN monitor_threads
                                     ELSE start_monitor(monitor_threads)
               /\ session_state' = [session_state EXCEPT
                                       ![s].monitor_started = IF raised THEN "False" ELSE "True",
                                       ![s].runs = @ + 1]
       ELSE /\ session_state' = [session_state EXCEPT ![s].runs = @ + 1]
            /\ UNCHANGED monitor_threads
    /\ UNCHANGED <<pc, files, runs, first_df, apply_window, window_days, test_size,
                   df, train_df, test_df, windowed, data, window, series>>
    /\ UNCHANGED <<stage_vars, infer_vars, batch_vars, conc_vars>>
    /\ UNCHANGED <<retry_vars, load_vars, alert_vars, monitor_vars>>

SessionNext == \E s \in Sessions : ScriptRun(s)

SpecSession == SessionInit /\ [][SessionNext]_vars

\* C30: at most one background monitor thread is ever started in a
\* dashboard process, whatever the number of sessions opened and of script
\* reruns.
C30_OneMonitorThread ==
    monitor_threads <= 1

====
